---- MODULE Spec2Model ----
(***************************************************************************)
(* A model of the poster-wall display engine (src/web/app.js): the boot    *)
(* sequence (configuration load, paged catalog fetch), the rotation timer, *)
(* the two-surface crossfade and the now-playing monitor.                  *)
(*                                                                         *)
(* The browser is single threaded: every action below is one task of the   *)
(* event loop (a timer callback, the continuation of an awaited response,  *)
(* an image load/error event, an animation frame) together with the        *)
(* microtasks it leaves behind.                                            *)
(***************************************************************************)
EXTENDS Integers, Sequences, FiniteSets, TLC

-----------------------------------------------------------------------------
(* Bounds of the model *)

\* largest catalog the media library holds in the display specifications
MaxCatalog == 2
\* rotation ticks taken by one rotation timer
MaxIdx == 4
\* crossfade transitions in flight at once (preload, auto-dim or frame pending)
MaxPending == 2
\* now-playing requests in flight at once
MaxPolls == 2
\* the paging loop is cut when its offset passes the ceiling by this margin
\* (the code stops at the ceiling; only a broken loop gets this far)
MaxOvershoot == 1500
\* extra startRotation or startNowPlayingMonitor calls made by a harness
MaxRestarts == 2

-----------------------------------------------------------------------------
(* Program constants *)

PAGE_SIZE == 500
SafetyCeiling == 50000
MinRotateSec == 3
DefaultRotateSec == 10
\* the default of the settings page that saves to local storage
SettingsDefaultRotateSec == 120
\* the longest display time the documentation gives (README: 3-3600 seconds)
MaxRotateSec == 3600
PollPeriodMs == 5000
ProbeDelayMs == 1000
DimThreshold == 200

\* a timer handle that holds no timer (rotationInterval = null)
NoTimer == 0
\* an <img> element whose src was never assigned
NoSrc == 0

-----------------------------------------------------------------------------
(* JSON values of the configuration document.  A value is a record with a  *)
(* tag t; a string is the sequence of its characters, a number an integer  *)
(* (fractions are not modelled).                                           *)

Missing == [t |-> "undefined"]
JNull == [t |-> "null"]
JBool(b) == [t |-> "bool", b |-> b]
JNum(n) == [t |-> "num", n |-> n]
JStr(s) == [t |-> "str", s |-> s]
JList(l) == [t |-> "list", l |-> l]
JObj == [t |-> "object"]

\* a JavaScript number: NaN, or the integer v
NaN == [nan |-> TRUE, v |-> 0]
Num(n) == [nan |-> FALSE, v |-> n]

Digits == <<"0", "1", "2", "3", "4", "5", "6", "7", "8", "9">>

IsDigit(c) == \E d \in 1..10 : Digits[d] = c

DigitValue(c) == (CHOOSE d \in 1..10 : Digits[d] = c) - 1

RECURSIVE DecimalValue(_)
DecimalValue(s) ==
  IF s = <<>> THEN 0
  ELSE 10 * DecimalValue(SubSeq(s, 1, Len(s) - 1)) + DigitValue(s[Len(s)])

\* StringToNumber: "" is 0, an optionally signed run of digits is its value,
\* anything else is NaN
StringToNumber(s) ==
  IF s = <<>> THEN Num(0)
  ELSE LET neg == s[1] = "-"
           body == IF neg THEN Tail(s) ELSE s
       IN IF body # <<>> /\ \A i \in 1..Len(body) : IsDigit(body[i])
          THEN Num(IF neg THEN 0 - DecimalValue(body) ELSE DecimalValue(body))
          ELSE NaN

\* Number(x)
ToNumber(x) ==
  CASE x.t = "undefined" -> NaN
    [] x.t = "null" -> Num(0)
    [] x.t = "bool" -> Num(IF x.b THEN 1 ELSE 0)
    [] x.t = "num" -> Num(x.n)
    [] x.t = "str" -> StringToNumber(x.s)
    [] x.t = "list" -> IF x.l = <<>> THEN Num(0)
                       ELSE IF Len(x.l) = 1 /\ x.l[1].t \in {"num", "str"}
                            THEN (IF x.l[1].t = "num" THEN Num(x.l[1].n)
                                  ELSE StringToNumber(x.l[1].s))
                            ELSE NaN
    [] x.t = "object" -> NaN

\* !!x
Truthy(x) ==
  CASE x.t = "undefined" -> FALSE
    [] x.t = "null" -> FALSE
    [] x.t = "bool" -> x.b
    [] x.t = "num" -> x.n # 0
    [] x.t = "str" -> x.s # <<>>
    [] x.t = "list" -> TRUE
    [] x.t = "object" -> TRUE

\* x ?? d
Nullish(x) == x.t \in {"undefined", "null"}

Coalesce(x, d) == IF Nullish(x) THEN d ELSE x

\* x.length of a configuration value (undefined for a value without one: 0 here,
\* both are falsy where the code reads it)
LengthOf(x) ==
  CASE x.t = "str" -> Len(x.s)
    [] x.t = "list" -> Len(x.l)
    [] OTHER -> 0

-----------------------------------------------------------------------------
(* loadCfg: the normalisation of the configuration document *)

MaxOf(a, b) == IF a >= b THEN a ELSE b

\* (variant without the floor)
NormalizeRotateSecNoFloor(raw) ==
  LET n == ToNumber(raw)
  IN IF n.nan \/ n.v = 0 THEN DefaultRotateSec ELSE n.v

\* Math.max(3, Number(j.rotateSec) || 10)
NormalizeRotateSec(raw) ==
  LET n == ToNumber(raw)
  IN MaxOf(MinRotateSec, IF n.nan \/ n.v = 0 THEN DefaultRotateSec ELSE n.v)

\* Number(el('rotateSec').value) in the settings page: the value of a form field
\* is a string; "Infinity" converts to the number Infinity
InfinityText == <<"I", "n", "f", "i", "n", "i", "t", "y">>

FormNumber(text) ==
  IF text = InfinityText THEN [k |-> "inf", v |-> 0]
  ELSE LET n == StringToNumber(text)
       IN IF n.nan THEN [k |-> "nan", v |-> 0] ELSE [k |-> "num", v |-> n.v]

\* Math.max(3, Number(el('rotateSec').value) || dflt)
SaveRotateSec(text, dflt) ==
  LET n == FormNumber(text)
  IN IF n.k = "inf" THEN n
     ELSE [k |-> "num",
           v |-> MaxOf(MinRotateSec, IF n.k = "nan" \/ n.v = 0 THEN dflt ELSE n.v)]

\* JSON.stringify of a number, read back by JSON.parse: a number that is not
\* finite is written as null
JsonNumber(n) == IF n.k = "num" THEN JNum(n.v) ELSE JNull

LoadCfgFields(j) ==
  [ sectionId    |-> IF j.sectionId.t = "list" THEN j.sectionId.l
                     ELSE << IF Truthy(j.sectionId) THEN j.sectionId ELSE JStr(<<"1">>) >>,
    rotateSec    |-> NormalizeRotateSec(j.rotateSec),
    plexUrl      |-> Coalesce(j.plexUrl, JStr(<<>>)),
    plexToken    |-> Coalesce(j.plexToken, JStr(<<>>)),
    plexInsecure |-> Truthy(j.plexInsecure),
    autoDim      |-> Truthy(j.autoDim),
    hostname     |-> Coalesce(j.hostname, JStr(<<"<", "h", ">">>)),
    plexDevices  |-> Coalesce(j.plexDevices, JList(<<>>)) ]

-----------------------------------------------------------------------------
(* fetchItems: one turn of the paging loop *)

\* The media library behind the companion service: a library of `size` items, or
\* one that answers every page with a full page (endless)
Library(n) == [endless |-> FALSE, size |-> n]
EndlessLibrary == [endless |-> TRUE, size |-> 0]

MinOf(a, b) == IF a <= b THEN a ELSE b

\* the number of items the companion service returns for the page at offset st
PageLen(cat, st) ==
  IF cat.endless THEN PAGE_SIZE
  ELSE MinOf(PAGE_SIZE, MaxOf(0, cat.size - st))

\* The items of a page.  Item k of the library is identified by k; an array of
\* items is kept as the sequence of its runs of consecutive items, one run for
\* each non-empty page pushed.
PageItems(st, n) == IF n = 0 THEN <<>> ELSE <<[first |-> st + 1, n |-> n]>>

\* array.length
RECURSIVE Count(_)
Count(o) == IF o = <<>> THEN 0 ELSE o[1].n + Count(Tail(o))

\* the array item by item
RECURSIVE Expand(_)
Expand(o) ==
  IF o = <<>> THEN <<>>
  ELSE [i \in 1..o[1].n |-> o[1].first + i - 1] \o Expand(Tail(o))

\* responses to GET /api/movies
MoviesOk(n) == [k |-> "ok", n |-> n]
MoviesStatus(s) == [k |-> "status", s |-> s]
MoviesNetErr == [k |-> "neterr"]
MoviesBadJson == [k |-> "badjson"]

\* the error thrown for a response that is not ok
StatusError(c, s) ==
  IF s = 401 THEN "AuthFailed"
  ELSE IF s = 404 THEN "SectionNotFound"
  ELSE IF s = 400
       THEN (IF ~Truthy(c.plexUrl) \/ ~Truthy(c.plexToken) THEN "ConfigIncomplete"
             ELSE "InvalidRequest")
  ELSE IF s >= 500 THEN "UpstreamFailure"
  ELSE "MoviesServiceError"

\* String(x) of a section id
RECURSIVE DecimalText(_)
DecimalText(n) ==
  IF n < 10 THEN <<Digits[n + 1]>>
  ELSE DecimalText(n \div 10) \o <<Digits[(n % 10) + 1]>>

ToText(x) ==
  CASE x.t = "str" -> x.s
    [] x.t = "num" -> IF x.n < 0 THEN <<"-">> \o DecimalText(0 - x.n)
                      ELSE DecimalText(x.n)
    [] x.t = "bool" -> IF x.b THEN <<"t", "r", "u", "e">>
                       ELSE <<"f", "a", "l", "s", "e">>
    [] OTHER -> <<>>

\* array.join(', ')
RECURSIVE Join(_)
Join(l) ==
  IF l = <<>> THEN <<>>
  ELSE IF Len(l) = 1 THEN ToText(l[1])
  ELSE ToText(l[1]) \o <<",", " ">> \o Join(Tail(l))

\* text.includes(word)
Includes(text, word) ==
  \E i \in 1..(Len(text) - Len(word) + 1) : SubSeq(text, i, i + Len(word) - 1) = word

FetchWord == <<"f", "e", "t", "c", "h">>

\* error.message.includes('fetch') in the catch block of the loop.  The block
\* catches the errors the loop body throws itself as well: of the fixed texts
\* none holds the word; the browser's transport error is "Failed to fetch"; the
\* 404 message interpolates cfg.sectionId.join(', ')
MessageIncludesFetch(c, e) ==
  \/ e = "FailedToFetch"
  \/ e = "SectionNotFound" /\ Includes(Join(c.sectionId), FetchWord)

CatchInLoop(c, e) == IF MessageIncludesFetch(c, e) THEN "ConnectivityFailure" ELSE e

\* (variant that takes only an empty page as the end of the data)
ShortPageOnlyEmpty(n) == n = 0

\* if (batch.length < PAGE_SIZE) break
ShortPage(n) == n < PAGE_SIZE

\* (variant without the safety guard)
PastCeilingNever(st) == FALSE

\* (variant whose guard lets one more page through)
PastCeilingOnePageLate(st) == st > SafetyCeiling + PAGE_SIZE

\* if (start > 50000) break
PastCeiling(st) == st > SafetyCeiling

\* (variant that returns an empty catalog)
EmptyCatalogAccepted(o) == FALSE

\* if (out.length === 0) throw
EmptyCatalog(o) == Count(o) = 0

\* (variant in which fetchItems swallows a failed page and returns what it has)
ThrowSwallowed(e) == [ctl |-> "return", start |-> 0, out |-> <<>>, err |-> "None"]

Throw(e) == [ctl |-> "throw", start |-> 0, out |-> <<>>, err |-> e]

LoopExit(st, o) ==
  IF EmptyCatalog(o) THEN Throw("EmptyCatalog")
  ELSE [ctl |-> "return", start |-> st, out |-> o, err |-> "None"]

\* (variant that returns the pages accumulated so far when a later page fails)
FetchItemsStepKeepsPartial(c, st, o, resp) ==
  CASE resp.k # "ok" /\ o # <<>> ->
         [ctl |-> "return", start |-> st, out |-> o, err |-> "None"]
    [] resp.k = "neterr" -> Throw(CatchInLoop(c, "FailedToFetch"))
    [] resp.k = "status" -> Throw(CatchInLoop(c, StatusError(c, resp.s)))
    [] resp.k = "badjson" -> Throw(CatchInLoop(c, "InvalidJson"))
    [] resp.k = "ok" ->
         LET o2 == o \o PageItems(st, resp.n)
         IN IF ShortPage(resp.n) THEN LoopExit(st, o2)
            ELSE IF PastCeiling(st + PAGE_SIZE) THEN LoopExit(st + PAGE_SIZE, o2)
            ELSE [ctl |-> "next", start |-> st + PAGE_SIZE, out |-> o2, err |-> "None"]

\* the loop body from the arrival of the response to the next request, the return
\* or the throw
FetchItemsStep(c, st, o, resp) ==
  CASE resp.k = "neterr" -> Throw(CatchInLoop(c, "FailedToFetch"))
    [] resp.k = "status" -> Throw(CatchInLoop(c, StatusError(c, resp.s)))
    [] resp.k = "badjson" -> Throw(CatchInLoop(c, "InvalidJson"))
    [] resp.k = "ok" ->
         LET o2 == o \o PageItems(st, resp.n)
         IN IF ShortPage(resp.n) THEN LoopExit(st, o2)
            ELSE IF PastCeiling(st + PAGE_SIZE) THEN LoopExit(st + PAGE_SIZE, o2)
            ELSE [ctl |-> "next", start |-> st + PAGE_SIZE, out |-> o2, err |-> "None"]

DefaultSection == JStr(<<"1">>)

\* section: cfg.sectionId[0] || '1'
QuerySection(c) ==
  IF Len(c.sectionId) > 0 /\ Truthy(c.sectionId[1]) THEN c.sectionId[1]
  ELSE DefaultSection

\* headers(cfg): the names of the headers set
\* variant: the token header is attached whatever the token is
HeadersTokenAlways(c) ==
  {"X-Plex-Token"}
    \cup (IF Truthy(c.plexUrl) THEN {"X-Plex-Url"} ELSE {})
    \cup (IF c.plexInsecure THEN {"X-Allow-Insecure"} ELSE {})

Headers(c) ==
  (IF Truthy(c.plexToken) THEN {"X-Plex-Token"} ELSE {})
    \cup (IF Truthy(c.plexUrl) THEN {"X-Plex-Url"} ELSE {})
    \cup (IF c.plexInsecure THEN {"X-Allow-Insecure"} ELSE {})

\* GET /api/config, issued by loadCfg and by the catch block of init()
ConfigRequest == [path |-> "/api/config", headers |-> {}]

\* GET /api/now-playing, issued by checkNowPlaying
NowPlayingRequest(c) == [path |-> "/api/now-playing", headers |-> Headers(c)]

\* the request of the page at offset st
PageRequest(c, st) ==
  [path |-> "/api/movies", section |-> QuerySection(c), start |-> st,
   size |-> PAGE_SIZE, headers |-> Headers(c)]

-----------------------------------------------------------------------------
(* State *)

VARIABLES
  serverCfg,          \* the configuration document the companion service holds
  catalog,            \* the media library behind GET /api/movies
  pc,                 \* where init() is: "cfg", "movies", "run", "catch", "error"
  cfg,                \* the configuration loadCfg returned
  start, out,         \* fetchItems: the offset of the page awaited, the items so far
  items,              \* the catalog init() received, shuffled in place by startRotation
  err,                \* the error init() caught
  panel,              \* the error panel: its message and host, once rendered
  sent,               \* the request issued last
  location,           \* the address the page was loaded from: protocol and host name
  pagesAsked,         \* the number of requests to /api/movies issued so far
  timers,             \* the browser's live timers: handle -> closure
  nextTimer,          \* the handle the next setInterval/setTimeout returns
  rotationInterval,   \* handle of the rotation timer, or NoTimer
  nowPlayingInterval, \* handle of the poll timer, or NoTimer
  front, back,        \* the roles of the two <img> elements "A" and "B"
  src,                \* element -> the artwork assigned to it
  visible,            \* element -> has class 'visible'
  dim,                \* element -> has class 'dim'
  preloading,         \* artworks whose preload is pending, in request order
  dimming,            \* pending computeBrightness calls of applyDim
  rafQueue,           \* animation-frame callbacks requested and not yet run
  loaded,             \* artworks whose load has completed at least once
  lastReq,            \* history: the artwork of the most recent swap call
  shownAtReq,         \* history: the artwork visible when that call was made
  lastTickMode,       \* history: the mode in which the last rotation tick fired
  currentMode,        \* 'rotation' or 'nowplaying'
  stageShown,         \* the rotation stage is displayed
  overlayShown,       \* the now-playing overlay has class 'visible'
  polls,              \* now-playing requests in flight: who issued each
  overlay,            \* the now-playing overlay's content: progress bar width, poster,
                      \* metadata icons
  lastPoll,           \* history: the last now-playing request answered (who issued it,
                      \* the answer, the mode it found)
  restarts,           \* calls of startRotation or startNowPlayingMonitor made after
                      \* boot by a harness
  installer           \* setup.sh on the device: /boot/firmware/cmdline.txt, the runs
                      \* made, the rotation requested last

bootVars == <<installer, location, serverCfg, catalog, pc, cfg, start, out, items, err, panel, sent,
             pagesAsked>>
timerVars == <<timers, nextTimer, rotationInterval, nowPlayingInterval>>
surfaceVars == <<front, back, src, visible, dim>>
fadeVars == <<preloading, dimming, rafQueue, loaded, lastReq, shownAtReq, lastTickMode>>
modeVars == <<currentMode, stageShown, overlayShown, overlay, polls, lastPoll>>
vars == <<bootVars, timerVars, surfaceVars, fadeVars, modeVars, restarts>>

Elements == {"A", "B"}

NoCfg == [none |-> TRUE]
NoPanel == [shown |-> FALSE]
NoPoll == [by |-> "none"]
\* the overlay as the page delivers it: no poster, no icon, an empty bar
EmptyOverlay == [progress |-> 0, poster |-> Missing, icons |-> <<>>]

-----------------------------------------------------------------------------
(* Inputs *)

\* values of rotateSec a configuration document may hold
RotateSecValues ==
  << Missing, JNull, JNum(0), JNum(0 - 5), JNum(1), JNum(2), JNum(3), JNum(4),
     JNum(5), JNum(10), JNum(120), JNum(3600), JNum(4000),
     JStr(<<>>), JStr(<<"0">>), JStr(<<"7">>), JStr(<<"-", "2">>),
     JStr(<<"1", "2">>), JStr(<<"a", "b", "c">>), JStr(<<"5", "s">>),
     JBool(TRUE), JBool(FALSE), JList(<<>>), JList(<<JNum(2)>>),
     JList(<<JNum(6), JNum(7)>>), JObj >>

DeviceValues == << Missing, JList(<<>>), JList(<<JStr(<<"t", "v">>)>>) >>

Doc(rs, ad, dev) ==
  [ sectionId    |-> JStr(<<"1">>),
    rotateSec    |-> rs,
    plexUrl      |-> JStr(<<"u">>),
    plexToken    |-> JStr(<<"k">>),
    plexInsecure |-> JBool(FALSE),
    autoDim      |-> ad,
    hostname     |-> JStr(<<"p", "i">>),
    plexDevices  |-> dev ]

\* values of sectionId: none, an empty list, one id, a list of ids, a library name
\* typed for an id
SectionIdValues ==
  << Missing, JList(<<>>),
     JStr(<<"1">>), JList(<<JNum(1), JNum(12)>>), JStr(<<"f", "e", "t", "e">>),
     JStr(<<"p", "r", "e", "f", "e", "t", "c", "h">>),
     JList(<<JStr(<<"2">>), JStr(<<"f", "e", "t", "c", "h">>)>>) >>

\* values of plexUrl and plexToken: set, empty, absent
CredentialValues == << JStr(<<"u">>), JStr(<<>>), Missing >>

\* values of plexDevices that list no device
InertDeviceValues == << Missing, JNull, JList(<<>>), JStr(<<>>) >>

DocErr(sid, url, tok) ==
  [Doc(JNum(5), JBool(FALSE), DeviceValues[2])
     EXCEPT !.sectionId = sid, !.plexUrl = url, !.plexToken = tok]

\* HTTP statuses of responses that are not ok
FailStatuses == {400, 401, 403, 404, 500, 503}

\* average luminances computeBrightness may resolve with
Lumas == {DimThreshold - 1, DimThreshold}

-----------------------------------------------------------------------------
(* Initial state: the page has loaded, init() awaits GET /api/config *)

InitBase ==
  /\ pc = "cfg"
  /\ cfg = NoCfg
  /\ start = 0
  /\ out = <<>>
  /\ items = <<>>
  /\ err = "None"
  /\ panel = NoPanel
  /\ sent = ConfigRequest
  /\ pagesAsked = 0
  /\ timers = <<>>
  /\ nextTimer = 1
  /\ rotationInterval = NoTimer
  /\ nowPlayingInterval = NoTimer
  /\ front = "A"
  /\ back = "B"
  /\ src = [e \in Elements |-> NoSrc]
  /\ visible = [e \in Elements |-> FALSE]
  /\ dim = [e \in Elements |-> FALSE]
  /\ preloading = <<>>
  /\ dimming = <<>>
  /\ rafQueue = 0
  /\ loaded = {}
  /\ lastReq = NoSrc
  /\ shownAtReq = NoSrc
  /\ lastTickMode = "none"
  /\ currentMode = "rotation"
  /\ stageShown = TRUE
  /\ overlayShown = FALSE
  /\ overlay = EmptyOverlay
  /\ polls = <<>>
  /\ lastPoll = NoPoll
  /\ restarts = 0

\* the page is served over http by the kiosk's own web server
HttpPage == [protocol |-> <<"h", "t", "t", "p", ":">>, hostname |-> <<"p", "i">>]

\* the device as the page's specifications take it: set up, setup.sh not run again
Deployed == [cmdline |-> [absent |-> TRUE], runs |-> 0, requested |-> ""]

InitProgram == InitBase /\ location = HttpPage /\ installer = Deployed

-----------------------------------------------------------------------------
(* Timers *)

\* the timer variables as one value, for the calls that follow one another in a task
TimerState == [timers |-> timers, next |-> nextTimer,
               rot |-> rotationInterval, np |-> nowPlayingInterval]

Closure(kind, delay, list, idx) ==
  [kind |-> kind, delay |-> delay, list |-> list, idx |-> idx]

\* setInterval / setTimeout: a new live timer under a fresh handle
SetTimer(ts, closure) ==
  [ts EXCEPT !.timers = ts.timers @@ (ts.next :> closure), !.next = ts.next + 1]

\* clearInterval(h)
ClearTimer(ts, h) ==
  [ts EXCEPT !.timers = [t \in (DOMAIN ts.timers) \ {h} |-> ts.timers[t]]]

TimersOfKind(tm, kind) == {t \in DOMAIN tm : tm[t].kind = kind}

-----------------------------------------------------------------------------
(* startRotation *)

\* (variant that overwrites position i instead of exchanging the two)
SwapAtOverwrites(list, i, j) == [list EXCEPT ![i] = list[j]]

SwapAt(list, i, j) == [list EXCEPT ![i] = list[j], ![j] = list[i]]

\* the Fisher-Yates loop from position i (1-based) down: every outcome of the
\* random choices
RECURSIVE ShuffleFrom(_, _)
ShuffleFrom(list, i) ==
  IF i <= 1 THEN {list}
  ELSE UNION {ShuffleFrom(SwapAt(list, i, j), i - 1) : j \in 1..i}

Shuffles(list) == ShuffleFrom(list, Len(list))

\* (variant that sets the new timer without clearing the old one)
StartRotationTimersNoClear(ts, c, list) ==
  IF Len(list) = 0 THEN ts
  ELSE LET set == SetTimer(ts, Closure("rotation", c.rotateSec * 1000, list, 1))
       IN [set EXCEPT !.rot = ts.next]

\* (variant that schedules a timer for an empty catalog too)
StartRotationTimersNoGuard(ts, c, list) ==
  LET cleared == IF ts.rot # NoTimer
                 THEN [ClearTimer(ts, ts.rot) EXCEPT !.rot = NoTimer]
                 ELSE ts
  IN [SetTimer(cleared, Closure("rotation", c.rotateSec * 1000, list, 1))
        EXCEPT !.rot = cleared.next]

\* (variant whose cursor is not advanced by the prime step)
StartRotationTimersCursorZero(ts, c, list) ==
  IF Len(list) = 0 THEN ts
  ELSE LET cleared == IF ts.rot # NoTimer
                      THEN [ClearTimer(ts, ts.rot) EXCEPT !.rot = NoTimer]
                      ELSE ts
       IN [SetTimer(cleared, Closure("rotation", c.rotateSec * 1000, list, 0))
             EXCEPT !.rot = cleared.next]

\* the timers after startRotation(c, list), list already shuffled: the guard, the
\* clearInterval, and the setInterval whose closure holds the list and idx (idx is 1
\* once the first item is primed)
StartRotationTimers(ts, c, list) ==
  IF Len(list) = 0 THEN ts
  ELSE LET cleared == IF ts.rot # NoTimer
                      THEN [ClearTimer(ts, ts.rot) EXCEPT !.rot = NoTimer]
                      ELSE ts
       IN [SetTimer(cleared, Closure("rotation", c.rotateSec * 1000, list, 1))
             EXCEPT !.rot = cleared.next]

\* the surfaces after startRotation(c, list): the first item is assigned to the
\* front surface; applyDim resolves at once when auto-dim is off, so the reveal runs
\* in the task of the call; with auto-dim it waits for computeBrightness
StartRotationSurfaces(c, list) ==
  IF Len(list) = 0
  THEN UNCHANGED <<src, visible, dim, dimming>>
  ELSE LET first == list[1]
       IN /\ src' = [src EXCEPT ![front] = first]
          /\ IF c.autoDim
             THEN /\ dimming' = Append(dimming,
                                  [el |-> front, src |-> first, next |-> "prime"])
                  /\ UNCHANGED <<dim, visible>>
             ELSE /\ dim' = [dim EXCEPT ![front] = FALSE]
                  /\ visible' = [visible EXCEPT ![front] = TRUE]
                  /\ UNCHANGED dimming

-----------------------------------------------------------------------------
(* The crossfade *)

RemoveAt(seq, i) == SubSeq(seq, 1, i - 1) \o SubSeq(seq, i + 1, Len(seq))

\* transitions that have been requested and have not yet run their frame callback
\* or failed
Pending == Len(preloading) + Cardinality({i \in 1..Len(dimming) : dimming[i].next = "raf"})
           + rafQueue

\* the artwork on the visible surface(s), NoSrc when none is visible
ShownArt == IF visible[front] THEN src[front]
            ELSE IF visible[back] THEN src[back] ELSE NoSrc

\* swap(cfg, item): the synchronous part
Swap(item) ==
  /\ visible' = [visible EXCEPT ![back] = FALSE]
  /\ preloading' = Append(preloading, item)
  /\ lastReq' = item
  /\ shownAtReq' = ShownArt
  /\ UNCHANGED <<front, back, src, dim, dimming, rafQueue, loaded>>

\* (variant that treats an image error like a load)
PreloadResolvesAlways(ok) == TRUE

\* preload resolves on the image's load event and rejects on its error event
PreloadResolves(ok) == ok

\* (variant with a strict comparison)
shouldDimStrict(luma) == luma > DimThreshold

shouldDim(luma) == luma >= DimThreshold

\* (variant whose callback skips the poster while the overlay is up)
RotationTickSkipsInNowPlaying(t) ==
  /\ t \in DOMAIN timers
  /\ timers[t].kind = "rotation"
  /\ timers[t].idx < MaxIdx
  /\ Pending < MaxPending
  /\ timers' = [timers EXCEPT ![t].idx = @ + 1]
  /\ lastTickMode' = currentMode
  /\ LET list == timers[t].list
     IN IF Len(list) = 0 \/ currentMode = "nowplaying"
        THEN UNCHANGED <<surfaceVars, preloading, dimming, rafQueue, loaded, lastReq,
                         shownAtReq>>
        ELSE Swap(list[(timers[t].idx % Len(list)) + 1])
  /\ UNCHANGED <<bootVars, nextTimer, rotationInterval, nowPlayingInterval,
                 modeVars, restarts>>

\* the interval callback of rotation timer t
RotationTick(t) ==
  /\ t \in DOMAIN timers
  /\ timers[t].kind = "rotation"
  /\ timers[t].idx < MaxIdx
  /\ Pending < MaxPending
  /\ timers' = [timers EXCEPT ![t].idx = @ + 1]
  /\ lastTickMode' = currentMode
  /\ LET list == timers[t].list
     IN IF Len(list) = 0
        THEN \* list[NaN] is undefined: item.poster throws, nothing is swapped
             UNCHANGED <<surfaceVars, preloading, dimming, rafQueue, loaded, lastReq,
                         shownAtReq>>
        ELSE Swap(list[(timers[t].idx % Len(list)) + 1])
  /\ UNCHANGED <<bootVars, nextTimer, rotationInterval, nowPlayingInterval,
                 modeVars, restarts>>

\* (variant whose failed preload moves the cursor of the rotation timer back)
PreloadDoneRewinds(i, ok) ==
  /\ i \in 1..Len(preloading)
  /\ ~ok
  /\ rotationInterval \in DOMAIN timers
  /\ preloading' = RemoveAt(preloading, i)
  /\ timers' = [timers EXCEPT ![rotationInterval].idx = @ - 1]
  /\ UNCHANGED <<bootVars, nextTimer, rotationInterval, nowPlayingInterval, surfaceVars,
                 dimming, rafQueue, loaded, lastReq, shownAtReq, lastTickMode,
                 modeVars, restarts>>

\* the load or error event of the i-th pending preload, and the then-callback up to
\* its first suspension
PreloadDone(i, ok) ==
  /\ i \in 1..Len(preloading)
  /\ LET item == preloading[i]
     IN /\ preloading' = RemoveAt(preloading, i)
        /\ IF PreloadResolves(ok)
           THEN /\ src' = [src EXCEPT ![back] = item]
                /\ loaded' = IF ok THEN loaded \cup {item} ELSE loaded
                /\ IF cfg.autoDim
                   THEN /\ dimming' = Append(dimming,
                                        [el |-> back, src |-> item, next |-> "raf"])
                        /\ UNCHANGED <<dim, rafQueue>>
                   ELSE /\ dim' = [dim EXCEPT ![back] = FALSE]
                        /\ rafQueue' = rafQueue + 1
                        /\ UNCHANGED dimming
           ELSE UNCHANGED <<src, loaded, dim, dimming, rafQueue>>
  /\ UNCHANGED <<bootVars, timerVars, front, back, visible, lastReq, shownAtReq,
                 lastTickMode, modeVars, restarts>>

\* computeBrightness of the i-th pending applyDim resolves: with the average
\* luminance when the image loaded, with 0 when it failed; then what follows the
\* applyDim (the frame request of swap, the reveal of the prime step)
DimDone(i, ok, luma) ==
  /\ i \in 1..Len(dimming)
  /\ LET d == dimming[i]
         avg == IF ok THEN luma ELSE 0
     IN /\ dimming' = RemoveAt(dimming, i)
        /\ dim' = [dim EXCEPT ![d.el] = shouldDim(avg)]
        /\ loaded' = IF ok THEN loaded \cup {d.src} ELSE loaded
        /\ IF d.next = "raf"
           THEN /\ rafQueue' = rafQueue + 1
                /\ UNCHANGED visible
           ELSE /\ visible' = [visible EXCEPT ![front] = TRUE]
                /\ UNCHANGED rafQueue
  /\ UNCHANGED <<bootVars, timerVars, front, back, src, preloading, lastReq,
                 shownAtReq, lastTickMode, modeVars, restarts>>

\* (variant whose frame callback leaves the front surface visible)
FrameCallbackKeepsFront(st) ==
  [front |-> st.back, back |-> st.front,
   visible |-> [st.visible EXCEPT ![st.back] = TRUE]]

\* one frame callback of swap: hide the front, reveal the back, exchange the roles
FrameCallback(st) ==
  [front |-> st.back, back |-> st.front,
   visible |-> [[st.visible EXCEPT ![st.front] = FALSE] EXCEPT ![st.back] = TRUE]]

RECURSIVE RunFrame(_, _)
RunFrame(n, st) == IF n = 0 THEN st ELSE RunFrame(n - 1, FrameCallback(st))

\* an animation frame: the callbacks requested since the last frame run in order
AnimationFrame ==
  /\ rafQueue > 0
  /\ LET st == RunFrame(rafQueue, [front |-> front, back |-> back, visible |-> visible])
     IN /\ front' = st.front
        /\ back' = st.back
        /\ visible' = st.visible
  /\ rafQueue' = 0
  /\ UNCHANGED <<bootVars, timerVars, src, dim, preloading, dimming, loaded, lastReq,
                 shownAtReq, lastTickMode, modeVars, restarts>>

-----------------------------------------------------------------------------
(* The now-playing monitor *)

\* responses to GET /api/now-playing: a snapshot (of its fields the ones the
\* mode logic, the progress bar, the poster and the icon lookups read), or a
\* failure
NpFull(playing, res, ch, rating, progress, poster) ==
  [k |-> "ok", playing |-> playing, videoResolution |-> res, audioChannels |-> ch,
   rating |-> rating, progress |-> progress, poster |-> poster]

NpWith(playing, res, ch) == NpFull(playing, res, ch, Missing, Missing, Missing)

NpOk(playing) == NpWith(playing, Missing, Missing)

\* values of videoResolution and audioChannels: absent, a string, a number
ResolutionValues == {Missing, JStr(<<"1", "0", "8", "0">>), JNum(1080)}
ChannelValues == {Missing, JStr(<<"5", ".", "1">>), JNum(6)}

NpResponses ==
  {NpOk(FALSE), [k |-> "status"], [k |-> "neterr"], [k |-> "badjson"]}
    \cup {NpWith(TRUE, r, c) : r \in ResolutionValues, c \in ChannelValues}

\* the fields of a response body the display reads
SnapshotOf(resp) ==
  [playing |-> resp.playing, videoResolution |-> resp.videoResolution,
   audioChannels |-> resp.audioChannels, rating |-> resp.rating,
   progress |-> resp.progress, poster |-> resp.poster]

NotPlaying == SnapshotOf(NpOk(FALSE))

\* (variant of checkNowPlaying that reports a failed request as playing)
CheckNowPlayingResultFailClosed(resp) ==
  IF resp.k = "ok" THEN SnapshotOf(resp) ELSE SnapshotOf(NpOk(TRUE))

\* what checkNowPlaying returns for a response: the body of a successful one
CheckNowPlayingResult(resp) ==
  IF resp.k = "ok" THEN SnapshotOf(resp) ELSE NotPlaying

\* x has a length property
HasLength(x) == x.t \in {"str", "list"}

\* (variant of checkNowPlaying without the early return)
MonitorInertNever(c) == FALSE

\* checkNowPlaying makes no request when no device is configured:
\* !cfg.plexDevices || cfg.plexDevices.length === 0
MonitorInert(c) ==
  \/ ~Truthy(c.plexDevices)
  \/ HasLength(c.plexDevices) /\ LengthOf(c.plexDevices) = 0

NotApplicable == JStr(<<"N", "/", "A">>)

UpperLetters ==
  <<"A", "B", "C", "D", "E", "F", "G", "H", "I", "J", "K", "L", "M", "N", "O", "P", "Q", "R", "S", "T", "U", "V", "W", "X", "Y", "Z">>
LowerLetters ==
  <<"a", "b", "c", "d", "e", "f", "g", "h", "i", "j", "k", "l", "m", "n", "o", "p", "q", "r", "s", "t", "u", "v", "w", "x", "y", "z">>

\* String.prototype.toLowerCase
ToLowerChar(c) ==
  IF \E i \in 1..Len(UpperLetters) : UpperLetters[i] = c
  THEN LowerLetters[CHOOSE i \in 1..Len(UpperLetters) : UpperLetters[i] = c]
  ELSE c

ToLowerCase(s) == [i \in 1..Len(s) |-> ToLowerChar(s[i])]

\* the lookup tables: key, icon file (info-icons/<name>.png)
ResMap ==
  { <<<<"s", "d">>, "Res-SD">>,
    <<<<"7", "2", "0">>, "Res-HD720">>,
    <<<<"7", "2", "0", "p">>, "Res-HD720">>,
    <<<<"1", "0", "8", "0">>, "Res-HD1080">>,
    <<<<"1", "0", "8", "0", "p">>, "Res-HD1080">>,
    <<<<"4", "k">>, "Res-UHD4K">>,
    <<<<"8", "k">>, "Res-UHD8K">> }

ChannelMap ==
  { <<<<"m", "o", "n", "o">>, "Sound-Mono">>,
    <<<<"s", "t", "e", "r", "e", "o">>, "Sound-2.0">>,
    <<<<"2", ".", "0">>, "Sound-2.0">>,
    <<<<"5", ".", "1">>, "Sound-5.1">>,
    <<<<"6", ".", "1">>, "Sound-5.1">>,
    <<<<"7", ".", "1">>, "Dolby_TRUEHD71">> }

RatingMap ==
  { <<<<"T", "V", "-", "Y">>, "Rated-TVY">>,
    <<<<"T", "V", "-", "Y", "7">>, "Rated-TVY7">>,
    <<<<"T", "V", "-", "Y", "7", " ", "F", "V">>, "Rated-TVY7">>,
    <<<<"G">>, "Rated-G">>,
    <<<<"T", "V", "-", "G">>, "Rated-TVG">>,
    <<<<"P", "G">>, "Rated-PG">>,
    <<<<"T", "V", "-", "P", "G">>, "Rated-TVPG">>,
    <<<<"P", "G", "-", "1", "3">>, "Rated-PG13">>,
    <<<<"T", "V", "-", "1", "4">>, "Rated-TV14">>,
    <<<<"R">>, "Rated-R">>,
    <<<<"T", "V", "-", "M", "A">>, "Rated-TVMA">>,
    <<<<"N", "C", "-", "1", "7">>, "Rated-NC17">>,
    <<<<"X", "X", "X">>, "Rated-XXX">> }

NoIcon == "none"
RatedNA == "Rated-NA"

\* names every object literal inherits from Object.prototype; map[name] is then
\* the inherited member (a function or an object, truthy), not undefined
ObjectPrototypeKeys ==
  { <<"c", "o", "n", "s", "t", "r", "u", "c", "t", "o", "r">>,
    <<"t", "o", "s", "t", "r", "i", "n", "g">>,
    <<"v", "a", "l", "u", "e", "o", "f">>,
    <<"t", "o", "S", "t", "r", "i", "n", "g">>,
    <<"v", "a", "l", "u", "e", "O", "f">> }

InheritedMember == "inherited"

\* map[key] || fallback
Lookup(map, key, fallback) ==
  IF \E e \in map : e[1] = key THEN (CHOOSE e \in map : e[1] = key)[2]
  ELSE IF key \in ObjectPrototypeKeys THEN InheritedMember
  ELSE fallback

\* getVideoResolutionIcon / getAudioChannelIcon: a value that is falsy or 'N/A'
\* returns early; of another value the lookup calls toLowerCase (includes, for the
\* channels), which a value that is no string does not have: TypeError
IconLookupThrows(v) == Truthy(v) /\ v # NotApplicable /\ v.t # "str"

\* getVideoResolutionIcon(resolution), for a value that does not throw
getVideoResolutionIcon(v) ==
  IF ~Truthy(v) \/ v = NotApplicable THEN NoIcon
  ELSE Lookup(ResMap, ToLowerCase(v.s), NoIcon)

\* getAudioChannelIcon(channels), for a value that does not throw
getAudioChannelIcon(v) ==
  IF ~Truthy(v) \/ v = NotApplicable THEN NoIcon
  ELSE IF Includes(v.s, <<"5", ".", "1">>) THEN "Sound-5.1"
  ELSE IF Includes(v.s, <<"6", ".", "1">>) THEN "Sound-5.1"
  ELSE Lookup(ChannelMap, ToLowerCase(v.s), NoIcon)

\* getContentRatingIcon(rating)
getContentRatingIcon(v) ==
  IF ~Truthy(v) \/ v = NotApplicable THEN RatedNA
  ELSE Lookup(RatingMap, ToText(v), RatedNA)

\* the icons showNowPlaying inserts: resolution and channels when they have an
\* icon, the rating always
IconsOf(data) ==
  (IF getVideoResolutionIcon(data.videoResolution) # NoIcon
   THEN <<getVideoResolutionIcon(data.videoResolution)>> ELSE <<>>)
  \o (IF getAudioChannelIcon(data.audioChannels) # NoIcon
      THEN <<getAudioChannelIcon(data.audioChannels)>> ELSE <<>>)
  \o <<getContentRatingIcon(data.rating)>>

\* progressBar.style.width = `${data.progress || 0}%`: the percentage, or the
\* width as it was when the text is no valid width
ProgressWidth(cur, p) ==
  IF ~Truthy(p) THEN 0
  ELSE LET n == IF p.t \in {"num", "str"} THEN ToNumber(p) ELSE NaN
       IN IF ~n.nan /\ n.v >= 0 THEN n.v ELSE cur

\* prox(u): a falsy reference and an absolute http(s) one are returned as they
\* are, any other is appended to the base of the companion service
HasPrefix(text, prefix) ==
  Len(text) >= Len(prefix) /\ SubSeq(text, 1, Len(prefix)) = prefix

\* /^https?:\/\//i.test(u)
IsAbsoluteHttp(text) ==
  \/ HasPrefix(ToLowerCase(text), <<"h", "t", "t", "p", ":", "/", "/">>)
  \/ HasPrefix(ToLowerCase(text), <<"h", "t", "t", "p", "s", ":", "/", "/">>)

\* `${location.protocol}//${location.hostname}:8811`
ProxyBase(loc) == loc.protocol \o <<"/", "/">> \o loc.hostname \o <<":", "8", "8", "1", "1">>

\* (variant that prefixes every truthy reference)
ProxPrefixesAll(loc, u) ==
  IF ~Truthy(u) THEN u ELSE JStr(ProxyBase(loc) \o ToText(u))

Prox(loc, u) ==
  IF ~Truthy(u) THEN u
  ELSE IF IsAbsoluteHttp(ToText(u)) THEN u
  ELSE JStr(ProxyBase(loc) \o ToText(u))

\* showNowPlaying(data, cfg): the stage is hidden first, the overlay is filled
\* (title, progress, poster, icons), then it is revealed and the mode set; an
\* exception of an icon lookup leaves the function in between, the icons cleared
ShowNowPlaying(data) ==
  /\ stageShown' = FALSE
  /\ LET thrown == IconLookupThrows(data.videoResolution)
                      \/ IconLookupThrows(data.audioChannels)
     IN /\ overlay' = [progress |-> ProgressWidth(overlay.progress, data.progress),
                       poster |-> IF Truthy(data.poster) THEN Prox(location, data.poster)
                                  ELSE overlay.poster,
                       icons |-> IF thrown THEN <<>> ELSE IconsOf(data)]
        /\ IF thrown
           THEN UNCHANGED <<overlayShown, currentMode>>
           ELSE /\ overlayShown' = TRUE
                /\ currentMode' = "nowplaying"

\* (variant of showRotation that leaves currentMode as it is)
ShowRotationKeepsMode ==
  /\ overlayShown' = FALSE
  /\ stageShown' = TRUE
  /\ UNCHANGED <<currentMode, overlay>>

\* showRotation()
ShowRotation ==
  /\ overlayShown' = FALSE
  /\ stageShown' = TRUE
  /\ currentMode' = "rotation"
  /\ UNCHANGED overlay

\* the interval callback once checkNowPlaying has returned
IntervalResult(data) ==
  IF data.playing /\ currentMode = "rotation" THEN ShowNowPlaying(data)
  ELSE IF ~data.playing /\ currentMode = "nowplaying" THEN ShowRotation
  ELSE IF data.playing /\ currentMode = "nowplaying"
  THEN /\ overlay' = [overlay EXCEPT
                        !.progress = ProgressWidth(overlay.progress, data.progress)]
       /\ UNCHANGED <<currentMode, stageShown, overlayShown>>
  ELSE UNCHANGED <<currentMode, stageShown, overlayShown, overlay>>

\* the initial check once checkNowPlaying has returned
ProbeResult(data) ==
  IF data.playing THEN ShowNowPlaying(data)
  ELSE UNCHANGED <<currentMode, stageShown, overlayShown, overlay>>

\* (variant that sets the new poll timer without clearing the old one)
StartMonitorTimersNoClear(ts, c) ==
  LET polling == [SetTimer(ts, Closure("poll", PollPeriodMs, <<>>, 0))
                    EXCEPT !.np = ts.next]
  IN SetTimer(polling, Closure("probe", ProbeDelayMs, <<>>, 0))

\* the timers after startNowPlayingMonitor(c)
StartMonitorTimers(ts, c) ==
  LET cleared == IF ts.np # NoTimer
                 THEN [ClearTimer(ts, ts.np) EXCEPT !.np = NoTimer]
                 ELSE ts
      polling == [SetTimer(cleared, Closure("poll", PollPeriodMs, <<>>, 0))
                    EXCEPT !.np = cleared.next]
  IN SetTimer(polling, Closure("probe", ProbeDelayMs, <<>>, 0))

\* the poll timer fires: checkNowPlaying is called
PollTick(t) ==
  /\ t \in DOMAIN timers
  /\ timers[t].kind = "poll"
  /\ IF MonitorInert(cfg)
     THEN /\ IntervalResult(NotPlaying)
          /\ UNCHANGED polls
     ELSE /\ Len(polls) < MaxPolls
          /\ polls' = Append(polls, "poll")
          /\ UNCHANGED <<currentMode, stageShown, overlayShown, overlay>>
  /\ sent' = IF MonitorInert(cfg) THEN sent ELSE NowPlayingRequest(cfg)
  /\ UNCHANGED <<installer, location, serverCfg, catalog, pc, cfg, start, out, items, err, panel, pagesAsked,
                 timerVars, surfaceVars, fadeVars, lastPoll, restarts>>

\* the one-shot initial check fires
ProbeFire(t) ==
  /\ t \in DOMAIN timers
  /\ timers[t].kind = "probe"
  /\ timers' = [h \in (DOMAIN timers) \ {t} |-> timers[h]]
  /\ IF MonitorInert(cfg)
     THEN /\ ProbeResult(NotPlaying)
          /\ UNCHANGED polls
     ELSE /\ Len(polls) < MaxPolls
          /\ polls' = Append(polls, "probe")
          /\ UNCHANGED <<currentMode, stageShown, overlayShown, overlay>>
  /\ sent' = IF MonitorInert(cfg) THEN sent ELSE NowPlayingRequest(cfg)
  /\ UNCHANGED <<installer, location, serverCfg, catalog, pc, cfg, start, out, items, err, panel, pagesAsked,
                 nextTimer, rotationInterval, nowPlayingInterval,
                 surfaceVars, fadeVars, lastPoll, restarts>>

\* the i-th request in flight is answered and its caller applies the result
NowPlayingResponse(i, resp) ==
  /\ i \in 1..Len(polls)
  /\ polls' = RemoveAt(polls, i)
  /\ lastPoll' = [by |-> polls[i], resp |-> resp, before |-> currentMode]
  /\ IF polls[i] = "poll"
     THEN IntervalResult(CheckNowPlayingResult(resp))
     ELSE ProbeResult(CheckNowPlayingResult(resp))
  /\ UNCHANGED <<bootVars, timerVars, surfaceVars, fadeVars, restarts>>

-----------------------------------------------------------------------------
(* Boot: init() *)

FallbackHost == JStr(<<"l", "o", "c", "a", "l">>)

\* responses to GET /api/config
CfgResponses == {"ok", "status", "neterr", "badjson"}

\* loadCfg once GET /api/config has answered: the configuration, or the error
CfgError(resp) ==
  CASE resp = "status" -> "ConfigUnavailable"
    [] resp = "neterr" -> "FailedToFetch"
    [] resp = "badjson" -> "InvalidJson"

ConfigResponse(resp) ==
  /\ pc = "cfg"
  /\ IF resp = "ok"
     THEN /\ cfg' = LoadCfgFields(serverCfg)
          /\ pc' = "movies"
          /\ sent' = PageRequest(cfg', 0)
          /\ pagesAsked' = pagesAsked + 1
          /\ UNCHANGED err
     ELSE /\ err' = CfgError(resp)
          /\ pc' = "catch"
          /\ sent' = ConfigRequest
          /\ UNCHANGED <<cfg, pagesAsked>>
  /\ start' = 0
  /\ out' = <<>>
  /\ UNCHANGED <<installer, location, serverCfg, catalog, items, panel, timerVars, surfaceVars, fadeVars,
                 modeVars, restarts>>

\* the answers the companion service may give for the page awaited
MoviesResponses ==
  {MoviesOk(PageLen(catalog, start)), MoviesNetErr, MoviesBadJson}
    \cup {MoviesStatus(s) : s \in FailStatuses}

\* what init() does once fetchItems has returned the catalog: startRotation, then
\* startNowPlayingMonitor when devices are configured
BootTimers(c, list) ==
  LET rot == StartRotationTimers(TimerState, c, list)
  IN IF LengthOf(c.plexDevices) > 0 THEN StartMonitorTimers(rot, c) ELSE rot

SetTimers(ts) ==
  /\ timers' = ts.timers
  /\ nextTimer' = ts.next
  /\ rotationInterval' = ts.rot
  /\ nowPlayingInterval' = ts.np

\* a page of GET /api/movies is answered: the loop goes on, fetchItems throws, or it
\* returns and init() starts the rotation and the monitor
MoviesResponse(resp) ==
  /\ pc = "movies"
  /\ start <= SafetyCeiling + MaxOvershoot
  /\ LET r == FetchItemsStep(cfg, start, out, resp)
     IN /\ start' = r.start
        /\ out' = r.out
        /\ CASE r.ctl = "next" ->
                  /\ sent' = PageRequest(cfg, r.start)
                  /\ pagesAsked' = pagesAsked + 1
                  /\ UNCHANGED <<pc, items, err, timerVars, src, visible, dim, dimming>>
             [] r.ctl = "throw" ->
                  /\ err' = r.err
                  /\ pc' = "catch"
                  /\ sent' = ConfigRequest
                  /\ UNCHANGED <<items, timerVars, src, visible, dim, dimming,
                                 pagesAsked>>
             [] r.ctl = "return" ->
                  \E list \in Shuffles(Expand(r.out)) :
                    /\ items' = list
                    /\ StartRotationSurfaces(cfg, list)
                    /\ SetTimers(BootTimers(cfg, list))
                    /\ pc' = "run"
                    /\ UNCHANGED <<err, sent, pagesAsked>>
  /\ UNCHANGED <<installer, location, serverCfg, catalog, cfg, panel, front, back, preloading, rafQueue,
                 loaded, lastReq, shownAtReq, lastTickMode, modeVars, restarts>>

\* fetchItems alone: the same loop, returning to a caller that does nothing more
FetchItemsResponse(resp) ==
  /\ pc = "movies"
  /\ start <= SafetyCeiling + MaxOvershoot
  /\ LET r == FetchItemsStep(cfg, start, out, resp)
     IN /\ start' = r.start
        /\ out' = r.out
        /\ err' = r.err
        /\ pc' = CASE r.ctl = "next" -> "movies"
                   [] r.ctl = "throw" -> "catch"
                   [] r.ctl = "return" -> "fetched"
        /\ sent' = CASE r.ctl = "next" -> PageRequest(cfg, r.start)
                     [] r.ctl = "throw" -> ConfigRequest
                     [] r.ctl = "return" -> sent
        /\ pagesAsked' = IF r.ctl = "next" THEN pagesAsked + 1 ELSE pagesAsked
  /\ UNCHANGED <<installer, location, serverCfg, catalog, cfg, items, panel, timerVars, surfaceVars, fadeVars,
                 modeVars, restarts>>

\* (variant of the catch block that runs init again after rendering the panel)
CatchResponseRetries(resp) ==
  /\ pc = "catch"
  /\ panel' = [shown |-> TRUE, message |-> err,
               host |-> IF resp = "ok" /\ Truthy(serverCfg.hostname)
                        THEN serverCfg.hostname ELSE FallbackHost]
  /\ pc' = "cfg"
  /\ stageShown' = FALSE
  /\ UNCHANGED <<installer, location, serverCfg, catalog, cfg, start, out, items, err, sent, pagesAsked,
                 timerVars, surfaceVars, fadeVars, currentMode, overlayShown, overlay, polls, lastPoll,
                 restarts>>

\* the catch block: GET /api/config is asked again for the host name, then the
\* error panel replaces the page
CatchResponse(resp) ==
  /\ pc = "catch"
  /\ panel' = [shown |-> TRUE, message |-> err,
               host |-> IF resp = "ok" /\ Truthy(serverCfg.hostname)
                        THEN serverCfg.hostname ELSE FallbackHost]
  /\ pc' = "error"
  /\ stageShown' = FALSE
  /\ UNCHANGED <<installer, location, serverCfg, catalog, cfg, start, out, items, err, sent, pagesAsked,
                 timerVars, surfaceVars, fadeVars, currentMode, overlayShown, overlay, polls, lastPoll,
                 restarts>>

\* startRotation called again after boot, with an empty catalog or a fresh copy of
\* the catalog
Restart(list) ==
  /\ pc = "run"
  /\ restarts < MaxRestarts
  /\ restarts' = restarts + 1
  /\ \E shuffled \in Shuffles(list) :
       /\ StartRotationSurfaces(cfg, shuffled)
       /\ SetTimers(StartRotationTimers(TimerState, cfg, shuffled))
  /\ UNCHANGED <<bootVars, front, back, preloading, rafQueue, loaded, lastReq,
                 shownAtReq, lastTickMode, modeVars>>

\* startNowPlayingMonitor called after boot
StartMonitor ==
  /\ pc \in {"run", "fetched"}
  /\ restarts < MaxRestarts
  /\ restarts' = restarts + 1
  /\ SetTimers(StartMonitorTimers(TimerState, cfg))
  /\ UNCHANGED <<bootVars, surfaceVars, fadeVars, modeVars>>

-----------------------------------------------------------------------------
(* Specifications *)

\* The display with every part running: a small library, auto-dim on or off,
\* monitored devices or none.
Init ==
  /\ InitProgram
  /\ serverCfg \in {Doc(JNum(5), JBool(ad), DeviceValues[d]) :
                      ad \in BOOLEAN, d \in {2, 3}}
  /\ catalog \in {Library(n) : n \in 0..MaxCatalog}

Fade ==
  \/ \E t \in DOMAIN timers : RotationTick(t)
  \/ \E i \in 1..Len(preloading), ok \in BOOLEAN : PreloadDone(i, ok)
  \/ AnimationFrame

Dim == \E i \in 1..Len(dimming), ok \in BOOLEAN, luma \in Lumas : DimDone(i, ok, luma)

Monitor ==
  \/ \E t \in DOMAIN timers : PollTick(t)
  \/ \E t \in DOMAIN timers : ProbeFire(t)
  \/ \E i \in 1..Len(polls), resp \in NpResponses : NowPlayingResponse(i, resp)

Boot ==
  \/ \E resp \in CfgResponses : ConfigResponse(resp)
  \/ \E resp \in MoviesResponses : MoviesResponse(resp)
  \/ \E resp \in CfgResponses : CatchResponse(resp)

Next == Boot \/ Fade \/ Dim \/ Monitor

Spec == Init /\ [][Next]_vars

\* The rotation alone: no monitored device is configured, so the monitor is never
\* started.
InitRotation ==
  /\ InitProgram
  /\ serverCfg \in {Doc(JNum(5), JBool(ad), DeviceValues[d]) :
                      ad \in BOOLEAN, d \in {1, 2}}
  /\ catalog \in {Library(n) : n \in 0..MaxCatalog}

NextRotation == Boot \/ Fade \/ Dim

SpecRotation == InitRotation /\ [][NextRotation]_vars

\* The monitor beside the rotation of a one-item library (or an empty library,
\* which ends boot), auto-dim off.
InitMonitor ==
  /\ InitProgram
  /\ serverCfg \in {Doc(JNum(5), JBool(FALSE), DeviceValues[3])}
  /\ catalog \in {Library(0), Library(1)}

NextMonitor == Boot \/ Fade \/ Monitor

SpecMonitor == InitMonitor /\ [][NextMonitor]_vars

\* The monitor under fairness: the poll timer keeps firing and every request in
\* flight is answered, by a failure, by "not playing" or by a playback whose
\* icons resolve or throw
StuckResponses ==
  {NpOk(FALSE), [k |-> "neterr"],
   NpWith(TRUE, JStr(<<"1", "0", "8", "0">>), JStr(<<"5", ".", "1">>)),
   NpWith(TRUE, JNum(1080), Missing)}

InitStuck ==
  /\ InitProgram
  /\ serverCfg \in {Doc(JNum(5), JBool(FALSE), DeviceValues[3])}
  /\ catalog \in {Library(1)}

PollTurn == \E t \in DOMAIN timers : PollTick(t)

AnswerTurn ==
  \E i \in 1..Len(polls), resp \in StuckResponses : NowPlayingResponse(i, resp)

NextStuck ==
  \/ Boot
  \/ Fade
  \/ PollTurn
  \/ \E t \in DOMAIN timers : ProbeFire(t)
  \/ AnswerTurn

SpecStuck == InitStuck /\ [][NextStuck]_vars /\ WF_vars(PollTurn) /\ WF_vars(AnswerTurn)

\* The configuration document with every kind of rotateSec value, one item or more
\* in the library, no auto-dim and no monitored device.
InitCfg ==
  /\ InitProgram
  /\ serverCfg \in {Doc(RotateSecValues[i], JBool(FALSE), DeviceValues[d]) :
                      i \in 1..Len(RotateSecValues), d \in {1, 2}}
  /\ catalog \in {Library(n) : n \in 1..MaxCatalog}

NextCfg == Boot \/ Fade

SpecCfg == InitCfg /\ [][NextCfg]_vars

\* fetchItems against libraries of every size class and against one that always
\* answers a full page.
FetchLibraries ==
  {Library(n) : n \in {0, 1, PAGE_SIZE - 1, PAGE_SIZE, PAGE_SIZE + 1, 2 * PAGE_SIZE,
                       SafetyCeiling - PAGE_SIZE, SafetyCeiling, SafetyCeiling + 1,
                       SafetyCeiling + PAGE_SIZE, SafetyCeiling + 2 * PAGE_SIZE}}
    \cup {EndlessLibrary}

InitFetch ==
  /\ InitProgram
  /\ serverCfg \in {Doc(JNum(5), JBool(FALSE), DeviceValues[2])}
  /\ catalog \in FetchLibraries

FetchTurn == \E resp \in MoviesResponses : FetchItemsResponse(resp)

NextFetch ==
  \/ \E resp \in CfgResponses : ConfigResponse(resp)
  \/ FetchTurn
  \/ \E resp \in CfgResponses : CatchResponse(resp)

SpecFetch == InitFetch /\ [][NextFetch]_vars

\* every page request is eventually answered
SpecFetchFair == SpecFetch /\ WF_vars(FetchTurn)

\* The display without auto-dim and without monitored devices, with startRotation
\* called again after boot.
InitRestart ==
  /\ InitProgram
  /\ serverCfg \in {Doc(JNum(5), JBool(FALSE), DeviceValues[2])}
  /\ catalog \in {Library(1), Library(2)}

RestartAny == \E list \in {<<>>, [i \in 1..Len(items) |-> i]} : Restart(list)

NextRestart == Boot \/ Fade \/ RestartAny

SpecRestart == InitRestart /\ [][NextRestart]_vars

\* The boot against every kind of failed page, with section ids and credentials
\* of every kind.
InitErrors ==
  /\ InitProgram
  /\ serverCfg \in {DocErr(SectionIdValues[i], CredentialValues[u], CredentialValues[k]) :
                      i \in 1..Len(SectionIdValues), u \in 1..Len(CredentialValues),
                      k \in 1..Len(CredentialValues)}
  /\ catalog \in {Library(n) : n \in 0..MaxCatalog}

NextErrors == Boot \/ Fade

SpecErrors == InitErrors /\ [][NextErrors]_vars

\* The display with no monitored device, and the monitor started all the same
\* after boot (init() does not start it then).
InitInert ==
  /\ InitProgram
  /\ serverCfg \in {Doc(JNum(5), JBool(FALSE), InertDeviceValues[d]) :
                      d \in 1..Len(InertDeviceValues)}
  /\ catalog \in {Library(n) : n \in 0..MaxCatalog}

NextInert ==
  \/ Boot
  \/ Fade
  \/ StartMonitor
  \/ \E t \in DOMAIN timers : PollTick(t)
  \/ \E t \in DOMAIN timers : ProbeFire(t)

SpecInert == InitInert /\ [][NextInert]_vars

\* The rotation of a library of three items: no auto-dim, no monitored device.
CycleLen == MaxCatalog + 1

InitCycle ==
  /\ InitProgram
  /\ serverCfg \in {Doc(JNum(5), JBool(FALSE), DeviceValues[d]) : d \in {1, 2}}
  /\ catalog \in {Library(CycleLen)}

NextCycle == Boot \/ Fade

SpecCycle == InitCycle /\ [][NextCycle]_vars

\* The monitor with snapshots that differ in what the overlay renders: metadata
\* with and without icons, two posters or none, two progress values.
SnapshotA ==
  NpFull(TRUE, JStr(<<"1", "0", "8", "0">>), JStr(<<"5", ".", "1">>),
         JStr(<<"P", "G">>), JNum(40), JStr(<<"/", "a">>))
SnapshotAProgressed ==
  NpFull(TRUE, JStr(<<"1", "0", "8", "0">>), JStr(<<"5", ".", "1">>),
         JStr(<<"P", "G">>), JNum(70), JStr(<<"/", "a">>))
SnapshotB ==
  NpFull(TRUE, JStr(<<"4", "K">>), JStr(<<"S", "t", "e", "r", "e", "o">>),
         Missing, Missing, JStr(<<"/", "b">>))

SnapshotNoPoster ==
  NpFull(TRUE, JStr(<<"4", "K">>), JStr(<<"S", "t", "e", "r", "e", "o">>),
         Missing, JNum(10), Missing)

OverlayResponses ==
  {NpOk(FALSE), [k |-> "neterr"], SnapshotA, SnapshotAProgressed, SnapshotB,
   SnapshotNoPoster}

InitOverlay ==
  /\ InitProgram
  /\ serverCfg \in {Doc(JNum(5), JBool(FALSE), DeviceValues[3])}
  /\ catalog \in {Library(1)}

NextOverlay ==
  \/ Boot
  \/ Fade
  \/ \E t \in DOMAIN timers : PollTick(t)
  \/ \E t \in DOMAIN timers : ProbeFire(t)
  \/ \E i \in 1..Len(polls), resp \in OverlayResponses : NowPlayingResponse(i, resp)

SpecOverlay == InitOverlay /\ [][NextOverlay]_vars

\* Credential headers: fetchItems pages through a library of more than one page
\* and the caller then starts the monitor, for every combination of URL, token
\* and insecure flag
InsecureValues == << JBool(TRUE), JBool(FALSE), Missing >>

HeaderLibraries == {Library(1), Library(PAGE_SIZE + 1)}

HeaderResponses == {NpOk(FALSE), NpOk(TRUE)}

InitHeaders ==
  /\ InitProgram
  /\ serverCfg \in {[DocErr(JStr(<<"1">>), CredentialValues[u], CredentialValues[k])
                       EXCEPT !.plexInsecure = InsecureValues[i],
                              !.plexDevices = DeviceValues[3]] :
                      u \in 1..Len(CredentialValues), k \in 1..Len(CredentialValues),
                      i \in 1..Len(InsecureValues)}
  /\ catalog \in HeaderLibraries

NextHeaders ==
  \/ \E resp \in CfgResponses : ConfigResponse(resp)
  \/ FetchTurn
  \/ \E resp \in CfgResponses : CatchResponse(resp)
  \/ StartMonitor
  \/ \E t \in DOMAIN timers : PollTick(t)
  \/ \E t \in DOMAIN timers : ProbeFire(t)
  \/ \E i \in 1..Len(polls), resp \in HeaderResponses : NowPlayingResponse(i, resp)

SpecHeaders == InitHeaders /\ [][NextHeaders]_vars

\* The shuffle: startRotation is called at boot and then again, before the first
\* tick, on the empty list, on the catalog in the order it is in and on the
\* catalog with its first item repeated
ShuffleInputs ==
  IF items = <<>> THEN {<<>>} ELSE {<<>>, items, items \o <<items[1]>>}

InitShuffle ==
  /\ InitProgram
  /\ serverCfg \in {Doc(JNum(5), JBool(FALSE), DeviceValues[2])}
  /\ catalog \in {Library(n) : n \in 1..MaxCatalog}

RestartShuffle == \E list \in ShuffleInputs : Restart(list)

NextShuffle == Boot \/ RestartShuffle

SpecShuffle == InitShuffle /\ [][NextShuffle]_vars

\* Artwork references: the page is served over http, https or from a file, and
\* the monitor shows playbacks whose poster is absent, empty, relative,
\* absolute in either case of letters, nearly absolute, or a number
Pages ==
  {[HttpPage EXCEPT !.protocol = pr] :
     pr \in {<<"h", "t", "t", "p", ":">>, <<"h", "t", "t", "p", "s", ":">>,
             <<"f", "i", "l", "e", ":">>}}

ReferenceValues ==
  {Missing, JNull, JStr(<<>>), JNum(0), JNum(7),
   JStr(<<"/", "a">>), JStr(<<"a">>), JStr(<<"/", "/", "c", "/", "a">>),
   JStr(<<"h", "t", "t", "p", ":", "/", "/", "c", "/", "a">>),
   JStr(<<"H", "T", "T", "P", "S", ":", "/", "/", "c">>),
   JStr(<<"h", "t", "t", "p", ":", "/", "a">>),
   JStr(<<"h", "t", "t", "p", "x", ":", "/", "/", "c">>),
   JStr(<<"f", "t", "p", ":", "/", "/", "c">>)}

ProxResponses ==
  {NpOk(FALSE)}
    \cup {NpFull(TRUE, JStr(<<"4", "K">>), Missing, Missing, Missing, u) :
            u \in ReferenceValues}

InitProx ==
  /\ InitBase
  /\ installer = Deployed
  /\ location \in Pages
  /\ serverCfg \in {Doc(JNum(5), JBool(FALSE), DeviceValues[3])}
  /\ catalog \in {Library(1)}

NextProx ==
  \/ \E resp \in CfgResponses : ConfigResponse(resp)
  \/ FetchTurn
  \/ \E resp \in CfgResponses : CatchResponse(resp)
  \/ StartMonitor
  \/ \E t \in DOMAIN timers : PollTick(t)
  \/ \E t \in DOMAIN timers : ProbeFire(t)
  \/ \E i \in 1..Len(polls), resp \in ProxResponses : NowPlayingResponse(i, resp)

SpecProx == InitProx /\ [][NextProx]_vars

\* Save and load: the settings page normalizes the text of its rotateSec field
\* and writes the document as JSON; the display boots from that document
FormValues ==
  {<<>>, <<"0">>, <<"2">>, <<"3">>, <<"7">>, <<"1", "2", "0">>,
   <<"4", "0", "0", "0">>, <<"-", "2">>, <<"a", "b", "c">>, InfinityText}

InitSave ==
  /\ InitProgram
  /\ serverCfg \in {[Doc(JNum(5), JBool(FALSE), DeviceValues[2])
                       EXCEPT !.rotateSec = JsonNumber(SaveRotateSec(text, dflt))] :
                      text \in FormValues,
                      dflt \in {DefaultRotateSec, SettingsDefaultRotateSec}}
  /\ catalog \in {Library(n) : n \in 1..MaxCatalog}

NextSave == Boot \/ Fade

SpecSave == InitSave /\ [][NextSave]_vars

\* Icon lookups: the monitor shows playbacks whose rating, resolution and audio
\* channels are absent, 'N/A', keys of the tables in either case, strings the
\* tables do not hold, or numbers
RatingValues ==
  {Missing, NotApplicable, JStr(<<"P", "G">>), JStr(<<"p", "g">>), JStr(<<"Z", "Z">>),
   JNum(13), JStr(<<"c", "o", "n", "s", "t", "r", "u", "c", "t", "o", "r">>)}

IconResolutionValues ==
  {Missing, NotApplicable, JStr(<<"1", "0", "8", "0">>), JStr(<<"4", "K">>),
   JStr(<<"4", "8", "0">>), JNum(1080)}

IconChannelValues ==
  {Missing, NotApplicable, JStr(<<"5", ".", "1", "(", "s", "i", "d", "e", ")">>),
   JStr(<<"S", "t", "e", "r", "e", "o">>), JStr(<<"9", ".", "1">>),
   JStr(<<"x", "6", ".", "1">>), JNum(6)}

IconResponses ==
  {NpOk(FALSE)}
    \cup {NpFull(TRUE, Missing, Missing, g, Missing, Missing) : g \in RatingValues}
    \cup {NpFull(TRUE, r, Missing, Missing, Missing, Missing) : r \in IconResolutionValues}
    \cup {NpFull(TRUE, Missing, c, Missing, Missing, Missing) : c \in IconChannelValues}

InitIcons ==
  /\ InitProgram
  /\ serverCfg \in {Doc(JNum(5), JBool(FALSE), DeviceValues[3])}
  /\ catalog \in {Library(1)}

NextIcons ==
  \/ \E resp \in CfgResponses : ConfigResponse(resp)
  \/ FetchTurn
  \/ \E resp \in CfgResponses : CatchResponse(resp)
  \/ StartMonitor
  \/ \E t \in DOMAIN timers : PollTick(t)
  \/ \E t \in DOMAIN timers : ProbeFire(t)
  \/ \E i \in 1..Len(polls), resp \in IconResponses : NowPlayingResponse(i, resp)

SpecIcons == InitIcons /\ [][NextIcons]_vars

-----------------------------------------------------------------------------
(* setup.sh: console rotation in the kernel command line *)

MaxRuns == 4

\* --fbcon-rotate 0|1|2|3; "" when the option is not given
RotateArgs == {"0", "1", "2", "3"}
NoRotateArg == ""

\* the text fbcon=rotate:N, one token of a line; a line is a sequence of tokens:
\* " " (one space), "w" (any other word), or one of these
FbconEntry(a) ==
  CASE a = "0" -> "fbcon=rotate:0"
    [] a = "1" -> "fbcon=rotate:1"
    [] a = "2" -> "fbcon=rotate:2"
    [] a = "3" -> "fbcon=rotate:3"

FbconEntries == {FbconEntry(a) : a \in RotateArgs}

\* a file: its lines, and whether the last one ends with a newline
NoFile == [absent |-> TRUE]
File(lines, nl) == [lines |-> lines, nl |-> nl]

\* sed -E 's/fbcon=rotate:[0-3]//g'
RemoveFbcon(line) == SelectSeq(line, LAMBDA t : t \notin FbconEntries)

\* echo | tee -a: one newline is appended to the file
AppendNewline(f) ==
  IF f.nl \/ f.lines = <<>> THEN File(Append(f.lines, <<>>), TRUE)
  ELSE File(f.lines, TRUE)

\* sed 's/  \+/ /g'
RECURSIVE SqueezeSpaces(_)
SqueezeSpaces(line) ==
  IF Len(line) < 2 THEN line
  ELSE IF line[1] = " " /\ line[2] = " " THEN SqueezeSpaces(Tail(line))
  ELSE <<line[1]>> \o SqueezeSpaces(Tail(line))

\* s/^ //;s/ $//
TrimEnds(line) ==
  LET l == IF line # <<>> /\ line[1] = " " THEN Tail(line) ELSE line
  IN IF l # <<>> /\ l[Len(l)] = " " THEN SubSeq(l, 1, Len(l) - 1) ELSE l

\* sed -E 's/$/ fbcon=rotate:N/' : every line of the file gets the entry
AppendFbcon(f, a) ==
  File([i \in 1..Len(f.lines) |-> f.lines[i] \o <<" ", FbconEntry(a)>>], f.nl)

\* sed -i applies its script to every line of the file
RemoveFbconLines(f) == File([i \in 1..Len(f.lines) |-> RemoveFbcon(f.lines[i])], f.nl)
TrimLines(f) == File([i \in 1..Len(f.lines) |-> TrimEnds(SqueezeSpaces(f.lines[i]))], f.nl)

\* apply_fbcon_rotate
ApplyFbconRotate(f, a) ==
  IF a = NoRotateArg \/ f = NoFile THEN f
  ELSE AppendFbcon(TrimLines(AppendNewline(RemoveFbconLines(f))), a)

\* command-line files found on a device: the stock one-line file, with and without
\* a final newline, one that holds an entry already, an empty one, none
CmdlineFiles ==
  { File(<< <<"w", " ", "w">> >>, TRUE),
    File(<< <<"w", " ", "w">> >>, FALSE),
    File(<< <<"w", " ", "fbcon=rotate:2", " ", " ", "w">> >>, FALSE),
    File(<<>>, FALSE),
    NoFile }

\* one run of setup.sh
SetupRun(a) ==
  /\ installer.runs < MaxRuns
  /\ installer' = [cmdline |-> ApplyFbconRotate(installer.cmdline, a),
                   runs |-> installer.runs + 1,
                   requested |-> IF a = NoRotateArg THEN installer.requested ELSE a]
  /\ UNCHANGED <<location, serverCfg, catalog, pc, cfg, start, out, items, err, panel, sent,
                 pagesAsked, timerVars, surfaceVars, fadeVars, modeVars, restarts>>

InitSetup ==
  /\ InitBase
  /\ location = HttpPage
  /\ serverCfg = Doc(JNum(5), JBool(FALSE), DeviceValues[3])
  /\ catalog = Library(1)
  /\ installer \in {[cmdline |-> f, runs |-> 0, requested |-> NoRotateArg] : f \in CmdlineFiles}

NextSetup == \E a \in RotateArgs \cup {NoRotateArg} : SetupRun(a)

SpecSetup == InitSetup /\ [][NextSetup]_vars

-----------------------------------------------------------------------------
(* Claims *)

HasCfg == "rotateSec" \in DOMAIN cfg

RotationTimers == TimersOfKind(timers, "rotation")

\* C1: whatever rotateSec the configuration document holds, the interval loadCfg
\* returns is at least 3 seconds and the rotation timer's period at least 3000 ms.
C1_IntervalFloor ==
  /\ HasCfg => cfg.rotateSec >= MinRotateSec
  /\ \A t \in RotationTimers : timers[t].delay >= MinRotateSec * 1000

\* a negative rotateSec was loaded and the rotation runs on the floor
C1_Witness ==
  /\ pc = "run"
  /\ serverCfg.rotateSec = JNum(0 - 5)
  /\ rotationInterval # NoTimer
  /\ timers[rotationInterval].delay = MinRotateSec * 1000

\* C2: when every page request is answered, fetchItems ends (it returns or throws),
\* for every library size and for a library that always answers a full page.
C2_FetchTerminates == (pc = "movies") ~> (pc # "movies")

\* fetchItems returned although every page was full
C2_Witness == pc = "fetched" /\ catalog.endless /\ start > SafetyCeiling

\* C3: neither the call of swap nor the failure of its preload changes which
\* surface is visible, the artworks assigned or the front/back roles.
C3_FailedPreloadNoOp ==
  [][ ((\E t \in DOMAIN timers : RotationTick(t))
        \/ (\E i \in 1..Len(preloading) : PreloadDone(i, FALSE)))
      => UNCHANGED <<front, back, src, visible>> ]_vars

\* the one transition requested has failed to preload and nothing is pending: the
\* primed item is still shown on the front surface
C3_Witness ==
  /\ pc = "run"
  /\ lastReq # NoSrc
  /\ lastReq \notin loaded
  /\ Pending = 0
  /\ visible[front]
  /\ src[front] = shownAtReq
  /\ ~visible[back]

\* C4 (as claimed): every now-playing result that is applied leaves the mode
\* NowPlaying when it reports playing and Rotation when it does not.
C4_ModeFollowsSnapshot ==
  [][ \A i \in 1..Len(polls), resp \in NpResponses :
        NowPlayingResponse(i, resp)
          => currentMode' = IF CheckNowPlayingResult(resp).playing
                            THEN "nowplaying" ELSE "rotation" ]_vars

\* C5 (as claimed): a visible surface shows an artwork whose load has completed.
C5_VisibleIsLoaded == \A e \in Elements : visible[e] => src[e] \in loaded

\* C5 (what the code does keep): a visible surface shows an artwork whose load has completed, or
\* the first item, which the prime step reveals without waiting for its load.
C5_VisibleIsLoadedOrPrimed ==
  \A e \in Elements : visible[e] => (src[e] \in loaded \/ src[e] = items[1])

\* a swap has revealed an artwork other than the primed one
C5_Witness ==
  /\ pc = "run"
  /\ visible[front]
  /\ src[front] # items[1]
  /\ src[front] \in loaded

\* C6 (as claimed): once a transition was requested, the visible artwork is the one
\* that was visible when the latest transition was requested, or that transition's
\* artwork, loaded.
C6_PreviousOrNext ==
  (lastReq # NoSrc /\ shownAtReq # NoSrc /\ ShownArt # NoSrc)
    => \/ ShownArt = shownAtReq
       \/ (ShownArt = lastReq /\ lastReq \in loaded)

\* C7: at most one rotation timer is live, however often startRotation is called.
C7_OneRotationTimer == Cardinality(RotationTimers) <= 1

\* startRotation has run again and set a second timer; one timer is live
C7_Witness ==
  /\ restarts >= 1
  /\ rotationInterval >= 2
  /\ RotationTimers = {rotationInterval}

\* C8 (as claimed): after a call of startRotation no rotation timer set by an
\* earlier call is live.
C8_EarlierTimerCancelled ==
  [][ restarts' = restarts + 1
      => \A t \in RotationTimers : t \notin DOMAIN timers' ]_vars

\* C9: startRotation with an empty catalog sets no timer and leaves both surfaces
\* and the roles as they are.
C9_EmptyCatalogNoOp ==
  [][ Restart(<<>>)
      => /\ nextTimer' = nextTimer
         /\ DOMAIN timers' \subseteq DOMAIN timers
         /\ UNCHANGED <<rotationInterval, surfaceVars, fadeVars>> ]_vars

\* startRotation has run again and the only timer ever set is the one of boot
C9_Witness ==
  /\ restarts = 1
  /\ nextTimer = 2
  /\ rotationInterval = 1
  /\ visible[front]

\* the page awaited is answered successfully and fetchItems has nothing accumulated
EmptyResult(resp) == resp.k = "ok" /\ resp.n = 0 /\ out = <<>>

NoTimerEverSet == timers = <<>> /\ nextTimer = 1 /\ rotationInterval = NoTimer
                  /\ nowPlayingInterval = NoTimer

\* C10: when the pages succeed and nothing was accumulated, init() catches
\* EmptyCatalog, the error panel shows it, and no timer is ever set.
C10_EmptyCatalogFatal ==
  /\ [][ \A resp \in MoviesResponses :
           (EmptyResult(resp) /\ MoviesResponse(resp))
             => (pc' = "catch" /\ err' = "EmptyCatalog") ]_vars
  /\ [](err = "EmptyCatalog"
          => /\ pc \in {"catch", "error"}
             /\ NoTimerEverSet
             /\ (pc = "error" => panel.shown /\ panel.message = "EmptyCatalog"))
  /\ [][ (err = "EmptyCatalog" /\ pc = "catch" /\ pc' # "catch") => pc' = "error" ]_vars

\* the panel shows EmptyCatalog
C10_Witness ==
  /\ pc = "error"
  /\ catalog.size = 0
  /\ panel.shown
  /\ panel.message = "EmptyCatalog"
  /\ nextTimer = 1

\* a response of GET /api/movies that is a failure
FailedPage(resp) == resp.k # "ok"

\* C11: the catalog is requested only once the configuration has loaded; timers
\* exist only after fetchItems returned a catalog; a failed configuration load or
\* a failed page takes init() to its catch block, from where the only step is
\* the error panel, and in the catch block and at the panel no timer was ever set.
C11_BootOrderedAndFatal ==
  /\ [](pc = "movies" => HasCfg)
  /\ [](~NoTimerEverSet => (pc = "run" /\ HasCfg /\ Len(items) > 0 /\ err = "None"))
  /\ [][ \A resp \in CfgResponses :
           (resp # "ok" /\ ConfigResponse(resp)) => (pc' = "catch" /\ err' # "None") ]_vars
  /\ [][ \A resp \in MoviesResponses :
           (FailedPage(resp) /\ MoviesResponse(resp))
             => (pc' = "catch" /\ err' # "None") ]_vars
  /\ [][ (pc = "catch" /\ pc' # "catch") => (pc' = "error" /\ panel'.shown) ]_vars
  /\ [][ pc = "error" => pc' = "error" ]_vars
  /\ [](pc \in {"catch", "error"} => (err # "None" /\ NoTimerEverSet))

\* a page request was refused with 401 and the panel shows it; no timer was set
C11_Witness ==
  /\ pc = "error"
  /\ HasCfg
  /\ err = "AuthFailed"
  /\ panel.shown
  /\ panel.message = "AuthFailed"
  /\ NoTimerEverSet

\* the error kind the mapping names for a failed page
CredentialsMissing(c) == ~Truthy(c.plexUrl) \/ ~Truthy(c.plexToken)

\* C12 (as claimed): a failed page is reported under the kind of its cause: 401
\* AuthFailed, 404 SectionNotFound, status 500 and above UpstreamFailure, a
\* transport failure ConnectivityFailure, and another client error with the Plex
\* URL or token missing ConfigIncomplete; ConnectivityFailure is reported for
\* transport failures only.
C12_KindByCause ==
  [][ \A resp \in MoviesResponses :
        (FailedPage(resp) /\ MoviesResponse(resp))
          => /\ (resp.k = "neterr") <=> (err' = "ConnectivityFailure")
             /\ (resp.k = "status" /\ resp.s = 401) <=> (err' = "AuthFailed")
             /\ (resp.k = "status" /\ resp.s = 404) <=> (err' = "SectionNotFound")
             /\ (resp.k = "status" /\ resp.s >= 500) <=> (err' = "UpstreamFailure")
             /\ (resp.k = "status" /\ resp.s \in 400..499 /\ resp.s \notin {401, 404}
                   /\ CredentialsMissing(cfg)) <=> (err' = "ConfigIncomplete") ]_vars

\* C13: with no monitored device configured init() starts no poll timer, no
\* request to /api/now-playing is ever in flight, a check made all the same
\* reports not playing (it changes no mode and no surface), and the mode is
\* Rotation throughout.
C13_InertWithoutDevices ==
  /\ [](polls = <<>>)
  /\ [](currentMode = "rotation" /\ ~overlayShown)
  /\ [](restarts = 0 => (nowPlayingInterval = NoTimer
                           /\ TimersOfKind(timers, "poll") = {}
                           /\ TimersOfKind(timers, "probe") = {}))
  /\ [][ ((\E t \in DOMAIN timers : PollTick(t)) \/ (\E t \in DOMAIN timers : ProbeFire(t)))
           => UNCHANGED <<modeVars, surfaceVars, fadeVars>> ]_vars

\* the monitor was started without devices, its initial check has run and its
\* poll timer is live: nothing is in flight and the display is in Rotation
C13_Witness ==
  /\ pc = "run"
  /\ restarts >= 1
  /\ nowPlayingInterval # NoTimer
  /\ TimersOfKind(timers, "probe") = {}
  /\ polls = <<>>
  /\ currentMode = "rotation"
  /\ stageShown

\* a response of GET /api/now-playing that is a failure
NpFailure(resp) == resp.k # "ok"

C15_ModeSwitchLeavesRotation ==
  /\ [][ \A i \in 1..Len(polls), resp \in NpResponses :
           NowPlayingResponse(i, resp)
             => UNCHANGED <<timerVars, surfaceVars, fadeVars>> ]_vars
  /\ [][ \A t \in DOMAIN timers :
           RotationTick(t)
             => /\ timers'[t].idx = timers[t].idx + 1
                /\ currentMode' = currentMode
                /\ Len(timers[t].list) > 0
                     => LET item == timers[t].list[(timers[t].idx % Len(timers[t].list)) + 1]
                        IN /\ lastReq' = item
                           /\ preloading' = Append(preloading, item) ]_vars

\* the overlay is up and a rotation tick has fired under it: the cursor has moved
\* and the transition is in flight
C15_Witness ==
  /\ currentMode = "nowplaying"
  /\ lastTickMode = "nowplaying"
  /\ ~stageShown
  /\ rotationInterval \in DOMAIN timers
  /\ timers[rotationInterval].idx >= 2
  /\ Len(preloading) > 0

\* the shuffled order holds every item of the library once
IsShuffleOfLibrary == {items[i] : i \in 1..Len(items)} = 1..catalog.size
                      /\ Len(items) = catalog.size

PositionOf(a) == CHOOSE i \in 1..Len(items) : items[i] = a

\* the item after a in the shuffled order, the first after the last
CyclicSuccessor(a) == items[(PositionOf(a) % Len(items)) + 1]

\* C16: the primed item is the first of the shuffled order; the first tick
\* requests the cyclic successor of the primed item and every later tick the
\* cyclic successor of the item requested before it, so the k-th tick requests
\* position k mod N (positions counted from 0) and the N-th the primed item.
C16_CyclicOrder ==
  /\ [](pc = "run" => (IsShuffleOfLibrary
                        /\ \A t \in RotationTimers : timers[t].list = items))
  /\ [][ (pc = "movies" /\ pc' = "run")
           => (src'[front'] = items'[1] /\ visible'[front']) ]_vars
  /\ [][ \A t \in DOMAIN timers :
           RotationTick(t)
             => /\ lastReq' = CyclicSuccessor(IF lastReq = NoSrc THEN items[1]
                                              ELSE lastReq)
                /\ lastReq' = items[(timers[t].idx % Len(items)) + 1]
                /\ (timers[t].idx = Len(items) => lastReq' = items[1]) ]_vars

\* every artwork has loaded, the third tick has requested the primed item again
\* and it is back on the visible surface
C16_Witness ==
  /\ pc = "run"
  /\ Len(items) = CycleLen
  /\ loaded = 1..CycleLen
  /\ timers[rotationInterval].idx = CycleLen + 1
  /\ lastReq = items[1]
  /\ Pending = 0
  /\ visible[front] /\ ~visible[back]
  /\ src[front] = items[1]
  /\ src[back] # items[1]

\* C17 (as claimed): when the first tick of a rotation timer fires, the first item
\* of its list is visible on the front surface.
C17_PrimedBeforeFirstTick ==
  [][ \A t \in DOMAIN timers :
        (RotationTick(t) /\ timers[t].idx = 1 /\ Len(timers[t].list) > 0)
          => (visible[front] /\ src[front] = timers[t].list[1]) ]_vars

\* C18: when applyDim completes with auto-dim on, its surface is dimmed exactly
\* when the image loaded and its average luminance is at least 200 (200 itself
\* dims, a failed computation counts as 0 and does not dim); with auto-dim off no
\* surface is ever dimmed.
C18_DimDecision ==
  /\ [][ \A i \in 1..Len(dimming), ok \in BOOLEAN, luma \in Lumas :
           DimDone(i, ok, luma)
             => /\ cfg.autoDim
                /\ dim'[dimming[i].el] = (ok /\ luma >= DimThreshold)
                /\ (ok /\ luma = DimThreshold) => dim'[dimming[i].el]
                /\ ~ok => ~dim'[dimming[i].el]
                /\ \A e \in Elements \ {dimming[i].el} : dim'[e] = dim[e] ]_vars
  /\ []((HasCfg /\ ~cfg.autoDim) => \A e \in Elements : ~dim[e])
  /\ [](\A i \in 1..Len(dimming) : cfg.autoDim)

\* auto-dim is on and the visible surface is dimmed: its luminance was the
\* threshold itself, the only luminance of Lumas that dims
C18_Witness ==
  /\ pc = "run"
  /\ cfg.autoDim
  /\ visible[front]
  /\ dim[front]
  /\ \A l \in Lumas : l >= DimThreshold => l = DimThreshold

\* C19 (as claimed): the interval the display loads is at least 3 and at most
\* 3600 seconds, and the rotation timer's period lies in the same range.
C19_IntervalRange ==
  /\ HasCfg => (cfg.rotateSec >= MinRotateSec /\ cfg.rotateSec <= MaxRotateSec)
  /\ \A t \in RotationTimers :
       /\ timers[t].delay >= MinRotateSec * 1000
       /\ timers[t].delay <= MaxRotateSec * 1000

\* C20 (as claimed): once the display runs, exactly one of stage and overlay is
\* shown, the stage in Rotation mode and the overlay in NowPlaying mode.
C20_SurfaceAgreesWithMode ==
  pc = "run"
    => /\ stageShown # overlayShown
       /\ (currentMode = "rotation") => (stageShown /\ ~overlayShown)
       /\ (currentMode = "nowplaying") => (~stageShown /\ overlayShown)

\* C21 (as claimed): when a snapshot reporting playing is applied while the mode
\* is NowPlaying, by the interval callback or by the initial check, the poster
\* and the icons of the overlay stay as they are, the progress bar takes the
\* snapshot's progress, and mode and visibility do not change.
C21_ProgressOnlyRefresh ==
  [][ \A i \in 1..Len(polls), resp \in OverlayResponses :
        (NowPlayingResponse(i, resp) /\ currentMode = "nowplaying"
           /\ resp.k = "ok" /\ resp.playing)
          => /\ overlay'.poster = overlay.poster
             /\ overlay'.icons = overlay.icons
             /\ overlay'.progress = ProgressWidth(overlay.progress, resp.progress)
             /\ UNCHANGED <<currentMode, stageShown, overlayShown>> ]_vars

\* C22 (as claimed): the section id list loadCfg returned is non-empty: ["1"]
\* when the document has no section id, the one id when it has a single one, the
\* list itself when it has a list; the page request awaited queries its first
\* element.
C22_SectionIdList ==
  HasCfg
    => /\ Len(cfg.sectionId) >= 1
       /\ Nullish(serverCfg.sectionId) => cfg.sectionId = <<DefaultSection>>
       /\ serverCfg.sectionId.t = "str" /\ Truthy(serverCfg.sectionId)
            => cfg.sectionId = <<serverCfg.sectionId>>
       /\ serverCfg.sectionId.t = "list" => cfg.sectionId = serverCfg.sectionId.l
       /\ pc = "movies" => PageRequest(cfg, start).section = cfg.sectionId[1]

\* C23: every request to /api/movies and to /api/now-playing carries the token
\* header iff the configured token is non-empty, the base-URL header iff the
\* configured URL is non-empty and the allow-insecure header iff the insecure
\* flag is set; a later page of one fetch carries the headers of the page before
CredentialHeaders ==
  (IF cfg.plexToken # JStr(<<>>) THEN {"X-Plex-Token"} ELSE {})
    \cup (IF cfg.plexUrl # JStr(<<>>) THEN {"X-Plex-Url"} ELSE {})
    \cup (IF cfg.plexInsecure = TRUE THEN {"X-Allow-Insecure"} ELSE {})

C23_CredentialHeaders ==
  /\ [](HasCfg /\ sent.path \in {"/api/movies", "/api/now-playing"}
          => sent.headers = CredentialHeaders)
  /\ [][pagesAsked' = pagesAsked + 1 /\ pagesAsked >= 1
          => sent'.path = "/api/movies" /\ sent'.headers = sent.headers]_vars

C23_Witness_PollAfterTwoPages ==
  /\ sent.path = "/api/now-playing"
  /\ pagesAsked = 2
  /\ serverCfg.plexToken = Missing
  /\ sent.headers = {"X-Plex-Url", "X-Allow-Insecure"}

\* C24: the fetch of the catalog starts at most once, and once fetchItems has
\* returned or thrown no request to /api/movies is issued again
FetchOver == pc \notin {"cfg", "movies"}

C24_FetchedOnce ==
  /\ [][FetchOver => (FetchOver' /\ pagesAsked' = pagesAsked
                        /\ (sent'.path = "/api/movies" => sent' = sent))]_vars
  /\ [][(pc # "movies" /\ pc' = "movies") => pagesAsked = 0]_vars

C24_Witness_SessionGoesOn ==
  /\ pc = "run"
  /\ pagesAsked = 1
  /\ lastTickMode = "rotation"
  /\ lastPoll # NoPoll
  /\ sent.path = "/api/now-playing"

\* C25: the page in flight is the one at offset 500 * (pages asked so far - 1);
\* a further page is asked only in the step that receives a full page for the
\* one before; a page of fewer than 500 items ends the requests; the array
\* fetchItems returns is the received pages joined in offset order
RECURSIVE ConcatPages(_)
ConcatPages(k) ==
  IF k = 0 THEN <<>>
  ELSE ConcatPages(k - 1)
         \o PageItems(PAGE_SIZE * (k - 1), PageLen(catalog, PAGE_SIZE * (k - 1)))

C25_PagesInOrder ==
  /\ [](pc = "movies" => /\ sent = PageRequest(cfg, start)
                         /\ start = PAGE_SIZE * (pagesAsked - 1))
  /\ [][(pagesAsked' # pagesAsked /\ pagesAsked >= 1)
          => /\ pc = "movies"
             /\ FetchItemsResponse(MoviesOk(PAGE_SIZE))
             /\ pagesAsked' = pagesAsked + 1]_vars
  /\ [][\A resp \in MoviesResponses :
          (resp.k = "ok" /\ resp.n < PAGE_SIZE /\ FetchItemsResponse(resp))
            => pc' \in {"fetched", "catch"} /\ pagesAsked' = pagesAsked]_vars
  /\ [](pc = "fetched" => out = ConcatPages(pagesAsked))

C25_Witness_TwoPages ==
  /\ pc = "fetched"
  /\ catalog = Library(PAGE_SIZE + 1)
  /\ pagesAsked = 2
  /\ Expand(out) = [i \in 1..(PAGE_SIZE + 1) |-> i]

\* C26: no page is requested at an offset above 50,000, so fetchItems issues at
\* most 101 page requests, also when every page comes back full
MaxPageRequests == SafetyCeiling \div PAGE_SIZE + 1

C26_OffsetCeiling ==
  /\ sent.path = "/api/movies" => sent.start <= SafetyCeiling
  /\ pc = "movies" => start <= SafetyCeiling
  /\ pagesAsked <= MaxPageRequests

C26_Witness_LastPage ==
  /\ catalog = EndlessLibrary
  /\ pc = "movies"
  /\ sent.start = SafetyCeiling
  /\ pagesAsked = MaxPageRequests

\* C27: the list startRotation rotates through is a permutation of the list it
\* was given (same length, every item as many times), and the outcomes of the
\* shuffle of a list are all of its permutations
Occurrences(list, x) == Cardinality({i \in 1..Len(list) : list[i] = x})

IsPermutationOf(a, b) ==
  /\ Len(a) = Len(b)
  /\ \A i \in 1..Len(a) : Occurrences(a, a[i]) = Occurrences(b, a[i])

PermutationsOf(list) ==
  {p \in [1..Len(list) -> {list[i] : i \in 1..Len(list)}] : IsPermutationOf(p, list)}

C27_ShuffleIsPermutation ==
  /\ [][(pc = "movies" /\ pc' = "run") => IsPermutationOf(items', Expand(out'))]_vars
  /\ [][restarts' # restarts
          => \A list \in ShuffleInputs :
               (Len(list) > 0 /\ Restart(list))
                 => IsPermutationOf(timers'[rotationInterval'].list, list)]_vars
  /\ [](\A t \in RotationTimers :
          Shuffles(timers[t].list) = PermutationsOf(timers[t].list))

C27_Witness_RepeatedItem ==
  /\ restarts = 1
  /\ items = <<1, 2>>
  /\ rotationInterval # NoTimer
  /\ timers[rotationInterval].list = <<1, 2, 1>>

\* C28: the surface holding the back role is never visible, so at most one of
\* the two poster surfaces is visible
C28_BackHidden ==
  /\ ~visible[back]
  /\ Cardinality({e \in DOMAIN visible : visible[e]}) <= 1

C28_Witness_AfterOverlappingSwaps ==
  /\ HasCfg
  /\ cfg.autoDim
  /\ front = "B"
  /\ visible["B"]
  /\ ~visible["A"]
  /\ dimming # <<>>
  /\ preloading # <<>>
  /\ src["B"] # lastReq

\* C29: the answer applied is always that of the oldest now-playing request
\* still in flight, so results are applied in the order their requests were
\* issued
C29_AppliedInIssueOrder ==
  [][ \A i \in 1..Len(polls), resp \in NpResponses :
        NowPlayingResponse(i, resp) => NowPlayingResponse(1, resp) ]_vars

\* C30: if from some point on every answer applied is a failure or reports not
\* playing, then, the poll timer firing and the requests being answered, the
\* mode eventually is Rotation for good, with the overlay hidden
QuietAnswer ==
  lastPoll = NoPoll \/ ~CheckNowPlayingResult(lastPoll.resp).playing

C30_OverlayNotStuck ==
  (<>[]QuietAnswer) => <>[](currentMode = "rotation" /\ ~overlayShown)

C30_Witness_RestoredByPoll ==
  /\ lastPoll # NoPoll
  /\ lastPoll.by = "poll"
  /\ lastPoll.before = "nowplaying"
  /\ lastPoll.resp.k = "neterr"
  /\ currentMode = "rotation"
  /\ ~overlayShown

\* C31: a page request that fails, also after full pages were received, makes
\* fetchItems throw: the accumulated items are dropped, init goes to its catch
\* block, fetchItems never returns afterwards, and no item list and no timer exist
C31_NoPartialCatalog ==
  /\ [][\A resp \in MoviesResponses :
          (resp.k # "ok" /\ FetchItemsResponse(resp))
            => /\ pc' = "catch"
               /\ out' = <<>>
               /\ err' # "None"
               /\ UNCHANGED <<items, timers, rotationInterval>>]_vars
  /\ [][(pc \in {"catch", "error"}) => (pc' \in {"catch", "error"})]_vars
  /\ [](pc \in {"catch", "error"}
          => out = <<>> /\ items = <<>> /\ timers = <<>> /\ rotationInterval = NoTimer)

C31_Witness_ThirdPageFails ==
  /\ pc = "catch"
  /\ pagesAsked = 3
  /\ start = 0
  /\ out = <<>>
  /\ err = "ConnectivityFailure"

\* C32: the array fetchItems returns holds at most 50,000 items
C32_CatalogWithinBound ==
  pc = "fetched" => Count(out) <= SafetyCeiling

\* C33: the error event of a preload changes neither the timers nor their
\* cursors nor the surfaces; when the failed item is the one requested last, the
\* position the next tick will request is the one after it, not the failed one;
\* and that tick requests it and advances the cursor
C33_FailedPreloadNoStall ==
  /\ [][\A i \in 1..Len(preloading) :
          (PreloadDone(i, FALSE) /\ ~PreloadDone(i, TRUE))
            => /\ UNCHANGED <<timerVars, surfaceVars, lastReq>>
               /\ \A t \in RotationTimers :
                    /\ t \in DOMAIN timers' /\ timers'[t].kind = "rotation"
                    /\ preloading[i] = lastReq
                         => LET next == items[(timers[t].idx % Len(items)) + 1]
                            IN next = CyclicSuccessor(lastReq) /\ next # preloading[i]]_vars
  /\ [][\A t \in DOMAIN timers :
          RotationTick(t)
            => /\ timers'[t].idx = timers[t].idx + 1
               /\ lastReq' = items[(timers[t].idx % Len(items)) + 1]
               /\ preloading' = Append(preloading, lastReq')]_vars

C33_Witness_NextAfterFailure ==
  /\ pc = "run"
  /\ ~cfg.autoDim
  /\ src[front] = items[1]
  /\ items[2] \notin loaded
  /\ lastReq = items[3]
  /\ preloading = <<items[3]>>
  /\ rafQueue = 0

\* C34: when an answer takes the display from Rotation to NowPlaying, the
\* overlay holds the progress, the icons and the artwork of that answer's
\* snapshot, and no artwork when the snapshot has no poster
C34_OverlayOfCausingSnapshot ==
  [][ \A i \in 1..Len(polls), resp \in OverlayResponses :
        (NowPlayingResponse(i, resp) /\ currentMode = "rotation"
           /\ currentMode' = "nowplaying")
          => /\ overlay'.progress = ProgressWidth(0, resp.progress)
             /\ overlay'.icons = IconsOf(SnapshotOf(resp))
             /\ overlay'.poster = Prox(location, resp.poster) ]_vars

\* C35: however often startNowPlayingMonitor is called, at most one repeating
\* poll timer is live, and it is the one nowPlayingInterval holds
PollTimers == TimersOfKind(timers, "poll")

C35_OnePollTimer ==
  /\ Cardinality(PollTimers) <= 1
  /\ PollTimers # {} => PollTimers = {nowPlayingInterval}

C35_Witness_MonitorRestarted ==
  /\ restarts = 2
  /\ PollTimers = {nowPlayingInterval}
  /\ nowPlayingInterval >= 3
  /\ Cardinality(TimersOfKind(timers, "probe")) = 2

\* C36: prox, as showNowPlaying applies it to the poster of a snapshot, returns
\* an absent or empty reference and an absolute http or https reference as it is
\* and any other reference with the base of the companion service in front
\* (showNowPlaying keeps the artwork it had when prox returns nothing); on a page served over http or https the artwork the overlay
\* was given is a fixed point of prox, as is prox of every reference
ServedOverHttp ==
  location.protocol \in {<<"h", "t", "t", "p", ":">>, <<"h", "t", "t", "p", "s", ":">>}

AbsoluteReferences ==
  {JStr(<<"h", "t", "t", "p", ":", "/", "/", "c", "/", "a">>),
   JStr(<<"H", "T", "T", "P", "S", ":", "/", "/", "c">>)}

EmptyReferences == {Missing, JNull, JStr(<<>>)}

\* the reference prox is to resolve, its result as the claim gives it
Resolved(u) ==
  IF u \in EmptyReferences \cup AbsoluteReferences THEN u
  ELSE IF Truthy(u) THEN JStr(ProxyBase(location) \o ToText(u))
  ELSE u

C36_ProxIdempotent ==
  /\ [][ (Len(polls') < Len(polls) /\ lastPoll'.resp.k = "ok" /\ lastPoll'.resp.playing
            /\ (lastPoll'.before = "rotation" \/ lastPoll'.by = "probe"))
           => LET u == lastPoll'.resp.poster
              IN overlay'.poster = IF Truthy(u) THEN Resolved(u) ELSE overlay.poster ]_vars
  /\ []((lastPoll # NoPoll /\ lastPoll.resp.k = "ok" /\ lastPoll.resp.playing)
          => LET u == lastPoll.resp.poster
             IN /\ Prox(location, u) = Resolved(u)
                /\ ServedOverHttp
                     => /\ Prox(location, Prox(location, u)) = Prox(location, u)
                        /\ Prox(location, overlay.poster) = overlay.poster)

C36_Witness_RelativePrefixed ==
  /\ location.protocol = <<"h", "t", "t", "p", "s", ":">>
  /\ lastPoll # NoPoll
  /\ lastPoll.resp.k = "ok"
  /\ lastPoll.resp.poster = JStr(<<"/", "a">>)
  /\ overlay.poster
       = JStr(<<"h", "t", "t", "p", "s", ":", "/", "/", "p", "i", ":", "8", "8", "1", "1", "/", "a">>)

\* C37: the interval the display loads is the value the settings page wrote,
\* and normalizing it again returns it unchanged
C37_RotateSecRoundTrip ==
  HasCfg => /\ serverCfg.rotateSec = JNum(cfg.rotateSec)
            /\ NormalizeRotateSec(JNum(cfg.rotateSec)) = cfg.rotateSec

\* C38: for the snapshot showNowPlaying is called with, the icons inserted are
\* the table's icon of the resolution, or none when the table does not hold it;
\* the 5.1 icon when the channels contain '5.1' or '6.1', else the table's icon,
\* or none; and the table's icon of the rating, or Rated-NA
TableIcon(map, key, fallback) ==
  IF \E e \in map : e[1] = key THEN (CHOOSE e \in map : e[1] = key)[2] ELSE fallback

TextOrNone(v) == IF v.t = "str" THEN v.s ELSE <<>>

ClaimedIcons(data) ==
  LET res == TableIcon(ResMap, ToLowerCase(TextOrNone(data.videoResolution)), NoIcon)
      ch == IF Includes(TextOrNone(data.audioChannels), <<"5", ".", "1">>)
               \/ Includes(TextOrNone(data.audioChannels), <<"6", ".", "1">>)
            THEN "Sound-5.1"
            ELSE TableIcon(ChannelMap, ToLowerCase(TextOrNone(data.audioChannels)), NoIcon)
      rated == TableIcon(RatingMap, TextOrNone(data.rating), RatedNA)
  IN (IF res # NoIcon THEN <<res>> ELSE <<>>)
       \o (IF ch # NoIcon THEN <<ch>> ELSE <<>>)
       \o <<rated>>

C38_IconLookupsTotal ==
  [][ (Len(polls') < Len(polls) /\ lastPoll'.resp.k = "ok" /\ lastPoll'.resp.playing
         /\ (lastPoll'.before = "rotation" \/ lastPoll'.by = "probe"))
        => /\ overlay'.icons = ClaimedIcons(SnapshotOf(lastPoll'.resp))
           /\ currentMode' = "nowplaying" ]_vars

\* C39: once setup has run with a rotation argument on a device that has the
\* kernel command-line file, the file holds exactly one fbcon=rotate entry, and
\* it is the one of the last such run
RECURSIVE FlattenLines(_)
FlattenLines(lines) ==
  IF lines = <<>> THEN <<>> ELSE Head(lines) \o FlattenLines(Tail(lines))

EntriesOf(f) == SelectSeq(FlattenLines(f.lines), LAMBDA t : t \in FbconEntries)

C39_OneFbconEntry ==
  (installer.requested # NoRotateArg /\ installer.cmdline # NoFile)
    => EntriesOf(installer.cmdline) = <<FbconEntry(installer.requested)>>

====
